---- MODULE Spec2Model ----
(***************************************************************************)
(* Model of the scarecrovv rules engine (src/src/scarecrovv): the game     *)
(* state built by setup(), the action engine (legal_actions/apply_action), *)
(* the round controller (start_of_round/end_of_round) and the game loop    *)
(* play_one().                                                             *)
(*                                                                         *)
(* Python values are represented as follows:                               *)
(*   list            -> sequence (index i of Python is index i+1 here)     *)
(*   dict            -> function whose DOMAIN is the set of keys           *)
(*   None (pid)      -> NoPid (-1);  None / 0 (slot) -> 0 (both falsy)     *)
(*   rng.shuffle     -> nondeterministic choice of a permutation           *)
(*   rng.choice      -> nondeterministic choice of an element              *)
(* The event log and the telemetry counters (visits, first_play_turn) are  *)
(* write-only in the engine and are not part of the model state.           *)
(***************************************************************************)
EXTENDS Integers, Sequences, FiniteSets, TLC

VARIABLES
    players,        \* pid -> PlayerState record
    supply,         \* g.supply  (face-down stack, popped from the end)
    pool,           \* g.pool    (face-up market)
    field_occupancy,\* g.field_occupancy
    initiative_pid, \* g.initiative_pid
    start_player,   \* g.start_player
    turn_order,     \* g.turn_order
    current_player, \* g.current_player
    turn,           \* g.turn
    hand_size_delta_next_round, \* g.hand_size_delta_next_round
    pc,             \* position of play_one / of the driver
    passed,         \* play_one: passed[pid]
    actions_left,   \* play_one: actions_left
    iters,          \* play_one: iterations of `for _ in range(turn_cap)` used
    winner,         \* play_one: winner (NoPid = None)
    victory_vp,     \* cfg.victory_vp of this game
    last,           \* the last call made: [op, pid, arg, pre] (observation)
    calls,          \* number of engine calls made by the driver
    probe           \* input/output of the pure cost functions

gvars == <<players, supply, pool, field_occupancy, initiative_pid,
           start_player, turn_order, current_player, turn,
           hand_size_delta_next_round>>
lvars == <<pc, passed, actions_left, iters, winner>>
vars == <<players, supply, pool, field_occupancy, initiative_pid,
          start_player, turn_order, current_player, turn,
          hand_size_delta_next_round, pc, passed, actions_left, iters,
          winner, victory_vp, last, calls, probe>>

----------------------------------------------------------------------------
(* Bounds of the model                                                     *)

NPlayers == 2          \* cfg.players
HandSize == 2          \* cfg.hand_size
StartRes == 1          \* RES:plasma tokens in a starting deck
StartVP == 1           \* VP:1 tokens in a starting deck
CopiesPerUnique == 1   \* cfg.copies_per_unique
PoolSize == 1          \* size of the market window dealt by setup
MaxVictoryVP == 2      \* cfg.victory_vp is drawn from 1..MaxVictoryVP
TurnCap == 3           \* cfg.turn_cap
MaxCalls == 3          \* engine calls made by the driver
MaxCost == 1           \* largest play-cost entry of a probed card
MaxProbeHand == 3      \* longest hand of a player probed with one play call
MaxRollouts == 2       \* largest rollouts argument of mcts_choose
MaxHorizon == 2        \* largest horizon argument of mcts_choose
MaxActionsCap == 2     \* largest actions_cap argument (0 = no cap)
MaxTimeMs == 1         \* largest time_ms argument (0 = no time budget)
MaxRoundCalls == 4     \* engine calls made by the round driver
MaxDelta == 1          \* largest |N| of a hand_size_delta_next_round:N tag
MaxPay == 2            \* largest amount and counter of a probed payment
MaxPayHand == 3        \* longest hand of a probed payment
MaxPile == 2           \* longest deck and discard pile of a probed draw
MaxDraw == 3           \* largest n of a probed draw

(* Program constants                                                       *)
WorkersPerRound == 2
ActionsPerTurn == 2
BigHandThreshold == 6
LateRoundThreshold == 6
PoolBuyCostOverride == 1
VpCost1 == 1
VpCost3 == 2
Slot1Bonus == 2
FieldCap == 1
StartOffset == 0
ForageYieldBonus == 0
MaxSlotArg == 7        \* slot arguments 0..7 are offered to apply_action

NoPid == -1
Players == 0 .. (NPlayers - 1)

RES == <<"plasma", "ash", "shards", "nut", "berry", "mushroom">>
RESSet == {RES[i] : i \in 1..Len(RES)}

ResTok(k) ==
    CASE k = "plasma" -> "RES:plasma"
      [] k = "ash" -> "RES:ash"
      [] k = "shards" -> "RES:shards"
      [] k = "nut" -> "RES:nut"
      [] k = "berry" -> "RES:berry"
      [] k = "mushroom" -> "RES:mushroom"
      [] OTHER -> "RES:?"

IsVPTok(tok) == tok \in {"VP:1", "VP:3"}
VPVal(tok) == IF tok = "VP:3" THEN 3 ELSE 1

(* dict helpers *)
Get(d, k) == IF k \in DOMAIN d THEN d[k] ELSE 0
Put(d, k, v) == [x \in (DOMAIN d) \cup {k} |-> IF x = k THEN v ELSE d[x]]
Del(d, k) == [x \in (DOMAIN d) \ {k} |-> d[x]]
EmptyDict == [x \in {} |-> 0]

(* list helpers *)
RemoveAt(s, i) == [j \in 1..(Len(s) - 1) |-> IF j < i THEN s[j] ELSE s[j + 1]]
Count(s, x) == Cardinality({i \in 1..Len(s) : s[i] = x})

RECURSIVE PermsOf(_)
PermsOf(s) ==
    IF s = <<>> THEN {<<>>}
    ELSE UNION {{<<s[i]>> \o t : t \in PermsOf(RemoveAt(s, i))} : i \in 1..Len(s)}

Range(sq) == {sq[i] : i \in 1..Len(sq)}

RECURSIVE Repeat(_, _)
Repeat(x, n) == IF n <= 0 THEN <<>> ELSE <<x>> \o Repeat(x, n - 1)

----------------------------------------------------------------------------
(* Card library (the rows of cards.csv are an input; this is the library   *)
(* the model runs with).  An effect string "a:b:c;d:e" is held as the      *)
(* sequence of its ';'-separated tags, each tag being the sequence of its  *)
(* ':'-separated parts.                                                    *)

CardIds == <<"c1", "c2">>
CardIdSet == {CardIds[i] : i \in 1..Len(CardIds)}

Cards ==
    [cid \in CardIdSet |->
        IF cid = "c1"
        THEN [id |-> "c1", buy_cost_plasma |-> 2,
              play_cost |-> [k \in {"plasma"} |-> 1],
              type_ |-> "Critter", can_play_on_mat |-> TRUE,
              effect |-> << <<"draw", 1>> >>]
        ELSE [id |-> "c2", buy_cost_plasma |-> 2,
              play_cost |-> EmptyDict,
              type_ |-> "Farm", can_play_on_mat |-> FALSE,
              effect |-> << <<"if_composted_gain", "ash", 1>>, <<"on_compost", "ash", 1>> >>]]

----------------------------------------------------------------------------
(* Resource / cost engine (engine/actions.py, engine/setup.py)             *)

CHOICE_KEY == "__choice_one_of__"

Min(a, b) == IF a < b THEN a ELSE b

CountResTokensInHand(p, key) == Count(p.hand, ResTok(key))

RECURSIVE RemoveToks(_, _, _)
RemoveToks(hand, tok, n) ==
    IF n <= 0 \/ hand = <<>> THEN hand
    ELSE IF Head(hand) = tok THEN RemoveToks(Tail(hand), tok, n - 1)
    ELSE <<Head(hand)>> \o RemoveToks(Tail(hand), tok, n)

\* returns the hand after removing the first n tokens RES:<key>
RemoveResTokensFromHand(p, key, n) == RemoveToks(p.hand, ResTok(key), n)

AvailableAmount(p, key) == Get(p.resources, key) + CountResTokensInHand(p, key)

CanPayMixed(p, cost) ==
    \A k \in DOMAIN cost :
        k = CHOICE_KEY \/ ~(AvailableAmount(p, k) < cost[k])

\* faulty variant: the counter is charged the whole amount, tokens or not
PayOneKey_fullCharge(p, k, need, prefer_tokens_first) ==
    [p EXCEPT !.hand = RemoveResTokensFromHand(p, k, need),
              !.resources = Put(p.resources, k, Get(p.resources, k) - need)]

\* faulty variant: the counter is charged first, tokens cover the remainder
PayOneKey_poolFirst(p, k, need, prefer_tokens_first) ==
    LET pool_pay == Min(Get(p.resources, k), need)
        remain == need - pool_pay
    IN [p EXCEPT !.resources = Put(p.resources, k, Get(p.resources, k) - pool_pay),
                 !.hand = IF remain > 0
                          THEN RemoveResTokensFromHand(p, k, remain)
                          ELSE p.hand]

PayOneKey(p, k, need, prefer_tokens_first) ==
    IF prefer_tokens_first
    THEN LET used_tok == Min(need, CountResTokensInHand(p, k))
             remain == need - used_tok
         IN [p EXCEPT !.hand = RemoveResTokensFromHand(p, k, need),
                      !.resources = IF remain > 0
                                    THEN Put(p.resources, k, Get(p.resources, k) - remain)
                                    ELSE p.resources]
    ELSE LET pool_pay == Min(Get(p.resources, k), need)
             remain == need - pool_pay
         IN [p EXCEPT !.resources = Put(p.resources, k, Get(p.resources, k) - pool_pay),
                      !.hand = IF remain > 0
                               THEN RemoveResTokensFromHand(p, k, remain)
                               ELSE p.hand]

RECURSIVE PayMixedFrom(_, _, _, _)
PayMixedFrom(p, cost, i, prefer_tokens_first) ==
    IF i > Len(RES) THEN p
    ELSE LET k == RES[i] IN
         IF k \notin DOMAIN cost \/ cost[k] <= 0
         THEN PayMixedFrom(p, cost, i + 1, prefer_tokens_first)
         ELSE PayMixedFrom(PayOneKey(p, k, cost[k], prefer_tokens_first),
                           cost, i + 1, prefer_tokens_first)

PayMixed(p, cost, prefer_tokens_first) == PayMixedFrom(p, cost, 1, prefer_tokens_first)

VpPlayCost(vp_value) ==
    IF vp_value = 1
    THEN [k \in {"plasma", "shards", CHOICE_KEY} |->
            IF k = CHOICE_KEY THEN RES ELSE 1]
    ELSE IF vp_value = 3
    THEN [k \in RESSet |-> 1]
    ELSE EmptyDict

Choices(cost) == IF CHOICE_KEY \in DOMAIN cost THEN cost[CHOICE_KEY] ELSE <<>>

CanPayWithChoice(p, cost) ==
    IF ~CanPayMixed(p, cost) THEN FALSE
    ELSE IF Choices(cost) # <<>>
    THEN \E i \in 1..Len(Choices(cost)) : AvailableAmount(p, Choices(cost)[i]) >= 1
    ELSE TRUE

\* best is "None" or a resource key; (tok, avail) is the tuple of the best so far
RECURSIVE ChooseFrom(_, _, _, _, _, _)
ChooseFrom(p, choices, i, best, btok, bavail) ==
    IF i > Len(choices) THEN best
    ELSE LET rk == choices[i]
             tok == CountResTokensInHand(p, rk)
             avail == AvailableAmount(p, rk)
         IN IF avail < 1 THEN ChooseFrom(p, choices, i + 1, best, btok, bavail)
            ELSE IF best = "None" \/ tok > btok \/ (tok = btok /\ avail > bavail)
            THEN ChooseFrom(p, choices, i + 1, rk, tok, avail)
            ELSE ChooseFrom(p, choices, i + 1, best, btok, bavail)

ChooseChoiceKeyToPay(p, choices) == ChooseFrom(p, choices, 1, "None", 0, 0)

\* returns [ok |-> the function's result, p |-> the player after the call]
PayWithChoice(p, cost, prefer_tokens_first) ==
    LET p1 == PayMixed(p, Del(cost, CHOICE_KEY), prefer_tokens_first)
        choices == Choices(cost)
        rk == ChooseChoiceKeyToPay(p1, choices)
    IN IF choices = <<>> THEN [ok |-> TRUE, p |-> p1]
       ELSE IF rk = "None" THEN [ok |-> FALSE, p |-> p1]
       ELSE IF prefer_tokens_first
       THEN IF CountResTokensInHand(p1, rk) > 0
            THEN [ok |-> TRUE, p |-> [p1 EXCEPT !.hand = RemoveResTokensFromHand(p1, rk, 1)]]
            ELSE [ok |-> TRUE,
                  p |-> [p1 EXCEPT !.resources = Put(p1.resources, rk, Get(p1.resources, rk) - 1)]]
       ELSE IF Get(p1.resources, rk) > 0
            THEN [ok |-> TRUE,
                  p |-> [p1 EXCEPT !.resources = Put(p1.resources, rk, p1.resources[rk] - 1)]]
            ELSE [ok |-> TRUE, p |-> [p1 EXCEPT !.hand = RemoveResTokensFromHand(p1, rk, 1)]]

----------------------------------------------------------------------------
(* Mat discounts (engine/setup.py)                                         *)

Slot2Type(p) ==
    IF 2 \in DOMAIN p.mat /\ p.mat[2] \in CardIdSet THEN Cards[p.mat[2]].type_ ELSE "None"

TotalDiscountForCard(p, c) ==
    LET s2 == Slot2Type(p)
        d2 == IF s2 # "None" /\ c.type_ = s2 THEN 1 ELSE 0
        d4 == IF 4 \in DOMAIN p.mat /\ c.type_ = "Critter" THEN 1 ELSE 0
        d5 == IF 5 \in DOMAIN p.mat /\ c.type_ = "Farm" THEN 1 ELSE 0
        d6 == IF 6 \in DOMAIN p.mat /\ c.type_ = "Wild" THEN 1 ELSE 0
    IN Min(d2 + d4 + d5 + d6, 1)

\* index in RES of the first key with a positive entry, 0 if none
RECURSIVE FirstPositive(_, _)
FirstPositive(cost, i) ==
    IF i > Len(RES) THEN 0
    ELSE IF Get(cost, RES[i]) > 0 THEN i
    ELSE FirstPositive(cost, i + 1)

\* faulty variant: no break, every positive entry is reduced
DiscountedCost_noBreak(play_cost, disc) ==
    IF disc <= 0 THEN play_cost
    ELSE [k \in {x \in DOMAIN play_cost : play_cost[x] - 1 > 0 \/ play_cost[x] <= 0} |->
            IF play_cost[k] > 0 THEN play_cost[k] - 1 ELSE play_cost[k]]

DiscountedCost(play_cost, disc) ==
    IF disc <= 0 THEN play_cost
    ELSE LET i == FirstPositive(play_cost, 1) IN
         IF i = 0 THEN play_cost
         ELSE IF play_cost[RES[i]] - 1 <= 0 THEN Del(play_cost, RES[i])
         ELSE Put(play_cost, RES[i], play_cost[RES[i]] - 1)

----------------------------------------------------------------------------
(* Deck / draw / compost (engine/setup.py)                                 *)

\* faulty variant: the discard pile is copied into the deck but not cleared
ReshuffleSet_keepDiscard(p) ==
    IF p.deck = <<>> /\ p.discard # <<>>
    THEN {[p EXCEPT !.deck = d] : d \in PermsOf(p.discard)}
    ELSE {p}

\* all players reshuffle_if_needed can leave behind (one per outcome of rng.shuffle)
ReshuffleSet(p) ==
    IF p.deck = <<>> /\ p.discard # <<>>
    THEN {[p EXCEPT !.deck = d, !.discard = <<>>] : d \in PermsOf(p.discard)}
    ELSE {p}

\* all players the call can leave behind
RECURSIVE DrawSet(_, _)
DrawSet(p, n) ==
    IF n <= 0 THEN {p}
    ELSE UNION {IF q.deck = <<>> THEN {q}
                ELSE DrawSet([q EXCEPT !.deck = SubSeq(q.deck, 1, Len(q.deck) - 1),
                                       !.hand = Append(q.hand, q.deck[Len(q.deck)])], n - 1)
                : q \in ReshuffleSet(p)}

DrawToHandSizeSet(p, target) ==
    LET need == IF target - Len(p.hand) > 0 THEN target - Len(p.hand) ELSE 0
    IN IF need > 0 THEN DrawSet(p, need) ELSE {p}

RECURSIVE GainsFrom(_, _, _)
GainsFrom(effect, i, gains) ==
    IF i > Len(effect) THEN gains
    ELSE LET tag == effect[i] IN
         IF tag[1] \in {"if_composted_gain", "on_compost"} /\ Len(tag) >= 3
            /\ tag[2] \in RESSet /\ tag[3] > 0
         THEN GainsFrom(effect, i + 1, Put(gains, tag[2], Get(gains, tag[2]) + tag[3]))
         ELSE GainsFrom(effect, i + 1, gains)

CompostGainsFor(card) == GainsFrom(card.effect, 1, EmptyDict)

\* faulty variant: the grant replaces the counter instead of adding to it
GrantResources_overwrite(p, grants) ==
    [p EXCEPT !.resources =
        [k \in (DOMAIN p.resources) \cup (DOMAIN grants) |->
            IF k \in DOMAIN grants THEN grants[k] ELSE Get(p.resources, k)]]

GrantResources(p, grants) ==
    [p EXCEPT !.resources =
        [k \in (DOMAIN p.resources) \cup (DOMAIN grants) |->
            Get(p.resources, k) + Get(grants, k)]]

\* index is the Python (0-based) index
CompostFromHand(p, index) ==
    IF ~(0 <= index /\ index < Len(p.hand)) THEN p
    ELSE LET tok == p.hand[index + 1]
             p1 == [p EXCEPT !.hand = RemoveAt(p.hand, index + 1)]
         IN IF tok \in CardIdSet
            THEN GrantResources(p1, CompostGainsFor(Cards[tok]))
            ELSE p1

----------------------------------------------------------------------------
(* Action engine (engine/actions.py)                                       *)

\* field_capacity.items() order
FIELDS == <<"plasma", "ash", "shards", "forage", "rookery", "compost", "initiative">>
FieldSet == {FIELDS[i] : i \in 1..Len(FIELDS)}
field_capacity == [f \in FieldSet |-> FieldCap]

\* An action tuple (kind, arg): i is the hand index, the market index or the
\* VP denomination; slot 0 stands for None
Act(kind, i, to_mat, slot, field) ==
    [kind |-> kind, i |-> i, to_mat |-> to_mat, slot |-> slot, field |-> field]
PlayAct(i, to_mat, slot) == Act("play", i, to_mat, slot, "")
BuyPoolAct(j) == Act("buy_pool", j, FALSE, 0, "")
BuyVpAct(v) == Act("buy_vp", v, FALSE, 0, "")
WorkerAct(f) == Act("worker", 0, FALSE, 0, f)
PassAct == Act("pass", 0, FALSE, 0, "")

AffordableNow(p, c) ==
    CanPayMixed(p, DiscountedCost(c.play_cost, TotalDiscountForCard(p, c)))

\* faulty variant: occupied slots are offered too
SlotFree_always(p, s) == TRUE

\* if s not in p.mat
SlotFree(p, s) == s \notin DOMAIN p.mat

RECURSIVE OpenSlotPlays(_, _, _)
OpenSlotPlays(p, i, s) ==
    IF s > 6 THEN <<>>
    ELSE (IF SlotFree(p, s) THEN <<PlayAct(i, TRUE, s)>> ELSE <<>>)
         \o OpenSlotPlays(p, i, s + 1)

\* the play actions offered for hand index i (0-based)
LegalPlaysAt(p, i) ==
    LET tok == p.hand[i + 1] IN
    IF IsVPTok(tok)
    THEN IF CanPayWithChoice(p, VpPlayCost(VPVal(tok)))
         THEN <<PlayAct(i, FALSE, 0)>> ELSE <<>>
    ELSE IF tok \notin CardIdSet THEN <<>>
    ELSE LET c == Cards[tok] IN
         (IF AffordableNow(p, c) THEN <<PlayAct(i, FALSE, 0)>> ELSE <<>>)
         \o (IF c.can_play_on_mat /\ AffordableNow(p, c)
             THEN OpenSlotPlays(p, i, 1) ELSE <<>>)

RECURSIVE LegalPlaysFrom(_, _)
LegalPlaysFrom(p, i) ==
    IF i >= Len(p.hand) THEN <<>>
    ELSE LegalPlaysAt(p, i) \o LegalPlaysFrom(p, i + 1)

PoolCost(cid) == PoolBuyCostOverride

RECURSIVE LegalBuyPoolFrom(_, _, _)
LegalBuyPoolFrom(p, pl, j) ==
    IF j >= Len(pl) THEN <<>>
    ELSE (IF pl[j + 1] \in CardIdSet /\ AvailableAmount(p, "plasma") >= PoolCost(pl[j + 1])
          THEN <<BuyPoolAct(j)>> ELSE <<>>)
         \o LegalBuyPoolFrom(p, pl, j + 1)

LegalBuyVp(p) ==
    (IF AvailableAmount(p, "plasma") >= VpCost1 THEN <<BuyVpAct(1)>> ELSE <<>>)
    \o (IF AvailableAmount(p, "plasma") >= VpCost3 THEN <<BuyVpAct(3)>> ELSE <<>>)

\* faulty variant: a full field is still offered
FieldOpen_offByOne(occ, cap) == occ <= cap

FieldOpen(occ, cap) == occ < cap

RECURSIVE LegalWorkersFrom(_, _)
LegalWorkersFrom(occ, i) ==
    IF i > Len(FIELDS) THEN <<>>
    ELSE (IF FieldOpen(Get(occ, FIELDS[i]), Get(field_capacity, FIELDS[i]))
          THEN <<WorkerAct(FIELDS[i])>> ELSE <<>>)
         \o LegalWorkersFrom(occ, i + 1)

\* faulty variant: pass is offered only when nothing else is
LegalActionsOn_passOnlyIfEmpty(ps, pl, occ, pid) ==
    LET p == ps[pid]
        acts == LegalPlaysFrom(p, 0)
                \o LegalBuyPoolFrom(p, pl, 0)
                \o LegalBuyVp(p)
                \o (IF p.workers > 0 THEN LegalWorkersFrom(occ, 1) ELSE <<>>)
    IN IF acts = <<>> THEN <<PassAct>> ELSE acts

\* legal_actions(g, pid) on the game (ps, pl, occ)
LegalActionsOn(ps, pl, occ, pid) ==
    LET p == ps[pid] IN
    LegalPlaysFrom(p, 0)
    \o LegalBuyPoolFrom(p, pl, 0)
    \o LegalBuyVp(p)
    \o (IF p.workers > 0 THEN LegalWorkersFrom(occ, 1) ELSE <<>>)
    \o <<PassAct>>

legal_actions(pid) == LegalActionsOn(players, pool, field_occupancy, pid)

\* faulty variant: the slot-1 bonus is forgotten
VpGain_noBonus(vp_val, mat) == vp_val

\* faulty variant: the score is subtracted
VpGain_negated(vp_val, mat) == 0 - (vp_val + (IF 1 \in DOMAIN mat THEN Slot1Bonus ELSE 0))

VpGain(vp_val, mat) == vp_val + (IF 1 \in DOMAIN mat THEN Slot1Bonus ELSE 0)

\* _act_play on a VP token at (0-based) hand_idx
ActPlayVp(p, hand_idx) ==
    LET tok == p.hand[hand_idx + 1]
        vp_val == VPVal(tok)
        play_cost == VpPlayCost(vp_val)
        popped == [p EXCEPT !.hand = RemoveAt(p.hand, hand_idx + 1)]
        paid == PayWithChoice(popped, play_cost, TRUE)
    IN IF ~CanPayWithChoice(p, play_cost) THEN p
       ELSE IF ~paid.ok
       THEN [paid.p EXCEPT !.hand = <<tok>> \o paid.p.hand]
       ELSE [paid.p EXCEPT !.vp = paid.p.vp + VpGain(vp_val, paid.p.mat),
                           !.discard = Append(paid.p.discard, tok)]

\* the mat branch is taken (line 344)
MatBranch(p, c, to_mat, slot) ==
    to_mat /\ c.can_play_on_mat /\ slot # 0 /\ slot \notin DOMAIN p.mat

\* _act_play on a library card at (0-based) hand_idx
ActPlayCard(p, hand_idx, to_mat, slot) ==
    LET c == Cards[p.hand[hand_idx + 1]]
        eff == DiscountedCost(c.play_cost, TotalDiscountForCard(p, c))
        popped == [p EXCEPT !.hand = RemoveAt(p.hand, hand_idx + 1)]
        paid == PayMixed(popped, eff, TRUE)
    IN IF ~CanPayMixed(p, eff) THEN p
       ELSE IF MatBranch(paid, c, to_mat, slot)
       THEN LET placed == [paid EXCEPT !.mat = Put(paid.mat, slot, c.id)]
                fx == IF slot = 3 /\ placed.hand # <<>>
                      THEN CompostFromHand(placed, 0) ELSE placed
            IN [fx EXCEPT !.discard = Append(fx.discard, c.id)]
       ELSE [paid EXCEPT !.discard = Append(paid.discard, c.id)]

ActPlay(p, hand_idx, to_mat, slot) ==
    IF hand_idx < 0 \/ hand_idx >= Len(p.hand) THEN p
    ELSE IF IsVPTok(p.hand[hand_idx + 1]) THEN ActPlayVp(p, hand_idx)
    ELSE IF p.hand[hand_idx + 1] \notin CardIdSet THEN p
    ELSE ActPlayCard(p, hand_idx, to_mat, slot)

\* _act_buy_pool: [p |-> player after, pool |-> pool after]; the refill_pool
\* import fails (setup.py defines no refill_pool) and the failure is swallowed
ActBuyPool(p, pl, pool_idx) ==
    IF pool_idx < 0 \/ pool_idx >= Len(pl) THEN [p |-> p, pool |-> pl]
    ELSE LET cid == pl[pool_idx + 1]
             cost == PoolCost(cid)
         IN IF cid \notin CardIdSet THEN [p |-> p, pool |-> pl]
            ELSE IF AvailableAmount(p, "plasma") < cost THEN [p |-> p, pool |-> pl]
            ELSE LET paid == PayMixed(p, [k \in {"plasma"} |-> cost], TRUE)
                 IN [p |-> [paid EXCEPT !.discard = Append(paid.discard, cid)],
                     pool |-> RemoveAt(pl, pool_idx + 1)]

VpBuyCost(value) == IF value = 1 THEN VpCost1 ELSE VpCost3
VpTok(value) == IF value = 1 THEN "VP:1" ELSE "VP:3"

ActBuyVp(p, value) ==
    IF value \notin {1, 3} THEN p
    ELSE IF AvailableAmount(p, "plasma") < VpBuyCost(value) THEN p
    ELSE LET paid == PayMixed(p, [k \in {"plasma"} |-> VpBuyCost(value)], TRUE)
         IN [paid EXCEPT !.discard = Append(paid.discard, VpTok(value))]

AddRes(p, k, n) == [p EXCEPT !.resources = Put(p.resources, k, Get(p.resources, k) + n)]

\* the players the field effect of _act_worker can leave behind
WorkerEffectSet(p, field) ==
    CASE field = "plasma" -> {AddRes(p, "plasma", 1)}
      [] field = "ash" -> {AddRes(p, "ash", 1)}
      [] field = "shards" -> {AddRes(p, "shards", 1)}
      [] field = "forage" -> {AddRes(p, "nut", 1 + ForageYieldBonus)}
      [] field = "rookery" -> DrawSet(p, 1)
      [] field = "compost" -> {IF p.hand # <<>> THEN CompostFromHand(p, 0) ELSE p}
      [] OTHER -> {p}

ClaimInitiative(ipid, pid) == IF ipid # NoPid THEN ipid ELSE pid

\* faulty variant: the capacity test is off by one
FieldFull_offByOne(occ, cap) == occ > cap

FieldFull(occ, cap) == occ >= cap

\* _act_worker refuses the placement
WorkerRefused(p, occ, field) ==
    p.workers <= 0 \/ FieldFull(Get(occ, field), Get(field_capacity, field))

----------------------------------------------------------------------------
(* Round controller (engine/rounds.py, model/game.py)                      *)

\* set_turn_order_for_round
TurnOrderFrom(sp) ==
    LET s == sp % NPlayers IN
    [i \in 1..NPlayers |-> (s + i - 1) % NPlayers]

ClearedOccupancy == [f \in DOMAIN field_capacity |-> 0]

\* faulty variant: the worker count is not reset
StartOfRoundPlayerSet_noReset(p, delta) ==
    DrawToHandSizeSet(AddRes(p, "plasma", 1), HandSize + delta)

\* the per-player part of start_of_round: the players it can leave behind
StartOfRoundPlayerSet(p, delta) ==
    DrawToHandSizeSet(
        AddRes([p EXCEPT !.workers = WorkersPerRound], "plasma", 1),
        HandSize + delta)

\* for p in g.players: every combination of the per-player outcomes
StartOfRoundPlayers ==
    LET X(q) == StartOfRoundPlayerSet(players[q], Get(hand_size_delta_next_round, q))
    IN {f \in [Players -> UNION {X(q) : q \in Players}] : \A q \in Players : f[q] \in X(q)}

start_of_round ==
    /\ turn_order' = TurnOrderFrom(start_player)
    /\ current_player' = TurnOrderFrom(start_player)[1]
    /\ field_occupancy' = ClearedOccupancy
    /\ players' \in StartOfRoundPlayers
    /\ hand_size_delta_next_round' = [q \in Players |-> 0]
    /\ UNCHANGED <<supply, pool, initiative_pid, start_player, turn>>

\* faulty variant: the claim is dropped, the start player stays
NextRoundStartFromInitiative_ignored(ipid, sp) == sp

\* next_round_start_from_initiative: the start player of the next round
NextRoundStartFromInitiative(ipid, sp) == IF ipid # NoPid THEN ipid ELSE sp

\* faulty variant: the hand is cleared without being moved to the discard
DiscardHand_dropped(p) == [p EXCEPT !.hand = <<>>]

\* p.discard.extend(p.hand); p.hand.clear()
DiscardHand(p) == [p EXCEPT !.discard = p.discard \o p.hand, !.hand = <<>>]

end_of_round ==
    /\ start_player' = NextRoundStartFromInitiative(initiative_pid, start_player)
    /\ initiative_pid' = NoPid
    /\ players' = [q \in Players |-> DiscardHand(players[q])]
    /\ hand_size_delta_next_round' = [q \in Players |-> 0]
    /\ field_occupancy' = ClearedOccupancy
    /\ turn' = turn + 1
    /\ UNCHANGED <<supply, pool, turn_order, current_player>>

\* apply_action(g, pid, a)
apply_action(pid, a) ==
    CASE a.kind = "play" ->
            /\ players' = [players EXCEPT ![pid] = ActPlay(players[pid], a.i, a.to_mat, a.slot)]
            /\ UNCHANGED <<supply, pool, field_occupancy, initiative_pid, start_player,
                           turn_order, current_player, turn, hand_size_delta_next_round>>
      [] a.kind = "buy_pool" ->
            /\ players' = [players EXCEPT ![pid] = ActBuyPool(players[pid], pool, a.i).p]
            /\ pool' = ActBuyPool(players[pid], pool, a.i).pool
            /\ UNCHANGED <<supply, field_occupancy, initiative_pid, start_player,
                           turn_order, current_player, turn, hand_size_delta_next_round>>
      [] a.kind = "buy_vp" ->
            /\ players' = [players EXCEPT ![pid] = ActBuyVp(players[pid], a.i)]
            /\ UNCHANGED <<supply, pool, field_occupancy, initiative_pid, start_player,
                           turn_order, current_player, turn, hand_size_delta_next_round>>
      [] a.kind = "worker" ->
            IF WorkerRefused(players[pid], field_occupancy, a.field)
            THEN UNCHANGED gvars
            ELSE /\ \E q \in WorkerEffectSet(players[pid], a.field) :
                        players' = [players EXCEPT ![pid] = [q EXCEPT !.workers = q.workers - 1]]
                 /\ initiative_pid' = IF a.field = "initiative"
                                      THEN ClaimInitiative(initiative_pid, pid)
                                      ELSE initiative_pid
                 /\ field_occupancy' = Put(field_occupancy, a.field,
                                           Get(field_occupancy, a.field) + 1)
                 /\ UNCHANGED <<supply, pool, start_player, turn_order, current_player,
                                turn, hand_size_delta_next_round>>
      [] OTHER -> UNCHANGED gvars

----------------------------------------------------------------------------
(* setup(cfg): the states it can return                                    *)

StartDeck == Repeat("RES:plasma", StartRes) \o Repeat("VP:1", StartVP)

RECURSIVE SupplyList(_)
SupplyList(i) ==
    IF i > Len(CardIds) THEN <<>>
    ELSE Repeat(CardIds[i], CopiesPerUnique) \o SupplyList(i + 1)

NewPlayer(deck) ==
    [deck |-> deck, hand |-> <<>>, discard |-> <<>>, mat |-> EmptyDict,
     workers |-> 2, vp |-> 0, resources |-> [k \in RESSet |-> 0]]

\* pool = [supply.pop() for _ in range(min(PoolSize, len(supply)))]
DealtPool(sup) == [i \in 1..Min(PoolSize, Len(sup)) |-> sup[Len(sup) + 1 - i]]
DealtSupply(sup) == SubSeq(sup, 1, Len(sup) - Min(PoolSize, Len(sup)))

SetupPlayerSet ==
    {AddRes(q, "plasma", 1) :
        q \in UNION {DrawToHandSizeSet(NewPlayer(d), HandSize) : d \in PermsOf(StartDeck)}}

Setup ==
    /\ \E sup \in PermsOf(SupplyList(1)) :
          /\ supply = DealtSupply(sup)
          /\ pool = DealtPool(sup)
    /\ players \in [Players -> SetupPlayerSet]
    /\ field_occupancy = ClearedOccupancy
    /\ hand_size_delta_next_round = [q \in Players |-> 0]
    /\ initiative_pid = NoPid
    /\ start_player = StartOffset % NPlayers
    /\ current_player = start_player
    /\ turn_order = <<>>
    /\ turn = 0

NoProbe == [card |-> [play_cost |-> EmptyDict, type_ |-> "None"], mat |-> EmptyDict,
            out |-> EmptyDict, done |-> FALSE]
NoCall == [op |-> "none", pid |-> NoPid, arg |-> 0]

----------------------------------------------------------------------------
(* Spec: the engine driven by an arbitrary caller                          *)

Init ==
    /\ Setup
    /\ pc = "api"
    /\ passed = [q \in Players |-> FALSE]
    /\ actions_left = ActionsPerTurn
    /\ iters = 0
    /\ winner = NoPid
    /\ victory_vp = MaxVictoryVP
    /\ last = NoCall
    /\ calls = 0
    /\ probe = NoProbe

Called(op, pid, arg) ==
    /\ pc = "api"
    /\ calls < MaxCalls
    /\ calls' = calls + 1
    /\ last' = [op |-> op, pid |-> pid, arg |-> arg]
    /\ UNCHANGED <<pc, passed, actions_left, iters, winner, victory_vp, probe>>

HandIdxArgs(p) == -1 .. Len(p.hand)
SlotArgs == 0 .. MaxSlotArg
PoolIdxArgs == -1 .. Len(pool)
VpArgs == {1, 2, 3}
FieldArgs == FieldSet \cup {"bogus"}
FieldNo(f) == IF f \in FieldSet THEN CHOOSE i \in 1..Len(FIELDS) : FIELDS[i] = f ELSE 0

CallStartOfRound == start_of_round /\ Called("start_of_round", NoPid, 0)

CallEndOfRound == end_of_round /\ Called("end_of_round", NoPid, 0)

\* (i, False, None) and (i, True, slot) for every slot argument
PlayArgs(p) ==
    {PlayAct(i, FALSE, 0) : i \in HandIdxArgs(p)}
    \cup {PlayAct(i, TRUE, slot) : i \in HandIdxArgs(p), slot \in SlotArgs}

CallPlay ==
    \E pid \in Players : \E a \in PlayArgs(players[pid]) :
        /\ apply_action(pid, a)
        /\ Called("play", pid, a.slot)

CallBuyPool ==
    \E pid \in Players : \E j \in PoolIdxArgs :
        /\ apply_action(pid, BuyPoolAct(j))
        /\ Called("buy_pool", pid, j)

CallBuyVp ==
    \E pid \in Players : \E v \in VpArgs :
        /\ apply_action(pid, BuyVpAct(v))
        /\ Called("buy_vp", pid, v)

CallWorker ==
    \E pid \in Players : \E f \in FieldArgs :
        /\ apply_action(pid, WorkerAct(f))
        /\ Called("worker", pid, FieldNo(f))

CallPass ==
    \E pid \in Players :
        /\ apply_action(pid, PassAct)
        /\ Called("pass", pid, 0)

Next ==
    \/ CallStartOfRound
    \/ CallEndOfRound
    \/ CallPlay
    \/ CallBuyPool
    \/ CallBuyVp
    \/ CallWorker
    \/ CallPass

Spec == Init /\ [][Next]_vars

----------------------------------------------------------------------------
(* LoopSpec: play_one (engine/loop.py)                                     *)

SetMin(S) == CHOOSE x \in S : \A y \in S : x <= y
SetMax(S) == CHOOSE x \in S : \A y \in S : x >= y

\* faulty variant: the threshold test is strict
WinnerOrNone_strict(ps) ==
    LET at == {q \in Players : ps[q].vp > victory_vp}
    IN IF at = {} THEN NoPid ELSE SetMin(at)

\* faulty variant: the first seat is returned once anybody is at the threshold
WinnerOrNone_firstSeat(ps) ==
    IF \E q \in Players : ps[q].vp >= victory_vp THEN 0 ELSE NoPid

\* _winner_or_none: the first player in seat order at the threshold
WinnerOrNone(ps) ==
    LET at == {q \in Players : ps[q].vp >= victory_vp}
    IN IF at = {} THEN NoPid ELSE SetMin(at)

\* faulty variant: the tie-break runs over all players, not over the VP leaders
WinnerByPoints_noVpFilter(ps) ==
    LET best_plasma == SetMax({Get(ps[q].resources, "plasma") : q \in Players})
    IN {q \in Players : Get(ps[q].resources, "plasma") = best_plasma}

\* faulty variant: the final tie-break returns nothing
WinnerByPoints_noFinalTie(ps) ==
    LET best == SetMax({ps[q].vp : q \in Players})
        candidates == {q \in Players : ps[q].vp = best}
        best_plasma == SetMax({Get(ps[q].resources, "plasma") : q \in candidates})
        c2 == {q \in candidates : Get(ps[q].resources, "plasma") = best_plasma}
    IN IF Cardinality(candidates) = 1 THEN candidates
       ELSE IF Cardinality(c2) = 1 THEN c2 ELSE {NoPid}

\* faulty variant: the first VP leader wins, plasma is not looked at
WinnerByPoints_firstLeader(ps) ==
    LET best == SetMax({ps[q].vp : q \in Players})
    IN {SetMin({q \in Players : ps[q].vp = best})}

\* _winner_by_points: the ids it can return (one per outcome of rng.choice)
WinnerByPoints(ps) ==
    LET best == SetMax({ps[q].vp : q \in Players})
        candidates == {q \in Players : ps[q].vp = best}
        best_plasma == SetMax({Get(ps[q].resources, "plasma") : q \in candidates})
        c2 == {q \in candidates : Get(ps[q].resources, "plasma") = best_plasma}
    IN IF Cardinality(candidates) = 1 THEN candidates ELSE c2

IndexIn(order, x) ==
    IF \E i \in 1..Len(order) : order[i] = x
    THEN (CHOOSE i \in 1..Len(order) : order[i] = x) - 1
    ELSE 0

\* faulty variant: the turn never moves
AdvancePlayer_stay(cur, order, psd) == cur

\* _advance_player: the next current_player
AdvancePlayer(cur, order, psd) ==
    LET idx == IndexIn(order, cur)
        n == Len(order)
        steps == {st \in 1..n : ~psd[order[((idx + st) % n) + 1]]}
    IN IF steps = {} THEN cur
       ELSE order[((idx + SetMin(steps)) % n) + 1]

\* faulty variant: any() in place of all()
AllPassed_any == \E q \in Players : passed[q]

AllPassed == \A q \in Players : passed[q]

\* choose_action(g, pid): the actions the bot can return
ChooseActionSet(pid) ==
    {legal_actions(pid)[i] : i \in 1..Len(legal_actions(pid))}

ArgOf(a) ==
    IF a.kind = "worker" THEN FieldNo(a.field)
    ELSE IF a.kind = "play" THEN a.slot
    ELSE a.i

LoopInit ==
    /\ Setup
    /\ pc = "start"
    /\ passed = [q \in Players |-> FALSE]
    /\ actions_left = ActionsPerTurn
    /\ iters = 0
    /\ winner = NoPid
    /\ victory_vp \in 1..MaxVictoryVP
    /\ last = NoCall
    /\ calls = 0
    /\ probe = NoProbe

\* lines 80-99
LoopBegin ==
    /\ pc = "start"
    /\ start_of_round
    /\ pc' = "top"
    /\ UNCHANGED <<passed, actions_left, iters, winner, victory_vp, last, calls, probe>>

\* the for loop has used up range(turn_cap)
LoopExhausted ==
    /\ pc = "top"
    /\ iters >= TurnCap
    /\ pc' = "after"
    /\ UNCHANGED <<gvars, passed, actions_left, iters, winner, victory_vp, last, calls, probe>>

\* lines 103-108
LoopRoundEnd ==
    /\ pc = "top"
    /\ iters < TurnCap
    /\ AllPassed
    /\ end_of_round
    /\ winner' = WinnerOrNone(players')
    /\ pc' = IF winner' # NoPid THEN "after" ELSE "next_round"
    /\ last' = [op |-> "end_of_round", pid |-> NoPid, arg |-> 0]
    /\ UNCHANGED <<passed, actions_left, iters, victory_vp, calls, probe>>

\* lines 110-114
LoopNextRound ==
    /\ pc = "next_round"
    /\ start_of_round
    /\ passed' = [q \in Players |-> FALSE]
    /\ actions_left' = ActionsPerTurn
    /\ iters' = iters + 1
    /\ pc' = "top"
    /\ last' = [op |-> "start_of_round", pid |-> NoPid, arg |-> 0]
    /\ UNCHANGED <<winner, victory_vp, calls, probe>>

\* lines 116-133: a passed current player is skipped, any other acts
LoopAct ==
    /\ pc = "top"
    /\ iters < TurnCap
    /\ ~AllPassed
    /\ IF passed[current_player]
       THEN /\ current_player' = AdvancePlayer(current_player, turn_order, passed)
            /\ actions_left' = ActionsPerTurn
            /\ iters' = iters + 1
            /\ UNCHANGED <<players, supply, pool, field_occupancy, initiative_pid,
                           start_player, turn_order, turn, hand_size_delta_next_round,
                           pc, passed, last>>
       ELSE /\ \E a \in ChooseActionSet(current_player) :
                  /\ apply_action(current_player, a)
                  /\ passed' = IF a.kind = "pass"
                               THEN [passed EXCEPT ![current_player] = TRUE] ELSE passed
                  /\ actions_left' = IF a.kind = "pass" THEN 0 ELSE actions_left - 1
                  /\ last' = [op |-> a.kind, pid |-> current_player, arg |-> ArgOf(a)]
            /\ pc' = "check"
            /\ UNCHANGED iters
    /\ UNCHANGED <<winner, victory_vp, calls, probe>>

\* lines 135-144
LoopVictoryCheck ==
    /\ pc = "check"
    /\ winner' = WinnerOrNone(players)
    /\ IF winner' # NoPid
       THEN /\ pc' = "after"
            /\ UNCHANGED <<current_player, actions_left, iters>>
       ELSE /\ pc' = "top"
            /\ iters' = iters + 1
            /\ IF actions_left <= 0
               THEN /\ current_player' = AdvancePlayer(current_player, turn_order, passed)
                    /\ actions_left' = ActionsPerTurn
               ELSE UNCHANGED <<current_player, actions_left>>
    /\ UNCHANGED <<players, supply, pool, field_occupancy, initiative_pid, start_player,
                   turn_order, turn, hand_size_delta_next_round,
                   passed, victory_vp, last, calls, probe>>

\* lines 146-160
LoopReturn ==
    /\ pc = "after"
    /\ winner' \in (IF winner = NoPid THEN WinnerByPoints(players) ELSE {winner})
    /\ pc' = "done"
    /\ UNCHANGED <<gvars, passed, actions_left, iters, victory_vp, last, calls, probe>>

\* the "vps" entry of the returned record
vps == [i \in 1..NPlayers |-> players[i - 1].vp]

LoopNext ==
    \/ LoopBegin
    \/ LoopExhausted
    \/ LoopRoundEnd
    \/ LoopNextRound
    \/ LoopAct
    \/ LoopVictoryCheck
    \/ LoopReturn

LoopSpec == LoopInit /\ [][LoopNext]_vars

\* play_one is a sequential call: it keeps running until it returns
LoopLive == LoopSpec /\ WF_vars(LoopNext)

----------------------------------------------------------------------------
(* CostSpec: total_discount_for_card and discounted_cost on probed inputs  *)

ProbeCosts == UNION {[D -> 1..MaxCost] : D \in SUBSET RESSet}
ProbeTypes == {"Critter", "Farm", "Wild", "Global", "None"}
ProbeMats ==
    {[s \in D |-> IF s = 2 THEN c2 ELSE "c1"] : D \in SUBSET {2, 4, 5, 6}, c2 \in CardIdSet}

BlankGame ==
    /\ players = [q \in Players |-> NewPlayer(<<>>)]
    /\ supply = <<>>
    /\ pool = <<>>
    /\ field_occupancy = EmptyDict
    /\ hand_size_delta_next_round = EmptyDict
    /\ initiative_pid = NoPid
    /\ start_player = 0
    /\ current_player = 0
    /\ turn_order = <<>>
    /\ turn = 0

CostInit ==
    /\ BlankGame
    /\ pc = "probe"
    /\ passed = [q \in Players |-> FALSE]
    /\ actions_left = ActionsPerTurn
    /\ iters = 0
    /\ winner = NoPid
    /\ victory_vp = MaxVictoryVP
    /\ last = NoCall
    /\ calls = 0
    /\ \E pcost \in ProbeCosts : \E ty \in ProbeTypes : \E m \in ProbeMats :
          probe = [card |-> [play_cost |-> pcost, type_ |-> ty], mat |-> m,
                   out |-> EmptyDict, done |-> FALSE]

\* eff = discounted_cost(c, total_discount_for_card(g, p, c))
ProbeDiscount ==
    /\ pc = "probe"
    /\ ~probe.done
    /\ probe' = [probe EXCEPT
                   !.out = DiscountedCost(probe.card.play_cost,
                                          TotalDiscountForCard([mat |-> probe.mat], probe.card)),
                   !.done = TRUE]
    /\ UNCHANGED <<gvars, lvars, victory_vp, last, calls>>

CostNext == ProbeDiscount

CostSpec == CostInit /\ [][CostNext]_vars

----------------------------------------------------------------------------
(* PlaySpec: _act_play applied once to a player in the middle of a game    *)

\* the hands, mats and resource pools the player may hold when play is called
PlayProbeToks == {"VP:1", "VP:3", "RES:plasma"} \cup CardIdSet
PlayProbeHands ==
    {h \in UNION {[1..n -> PlayProbeToks] : n \in 1..MaxProbeHand} :
        \A cid \in CardIdSet : Count(h, cid) <= CopiesPerUnique}
PlayProbeMats == {EmptyDict, [s \in {1} |-> "c1"], [s \in {1, 3} |-> "c1"]}
PlayProbeResources ==
    {[k \in RESSet |-> IF k = "plasma" THEN pl ELSE IF k = "shards" THEN sh ELSE r] :
        pl \in 0..2, sh \in 0..1, r \in 0..1}

PlayInit ==
    /\ \E h \in PlayProbeHands : \E m \in PlayProbeMats : \E rs \in PlayProbeResources :
          players = [q \in Players |->
                       IF q = 0
                       THEN [NewPlayer(<<>>) EXCEPT !.hand = h, !.mat = m, !.resources = rs]
                       ELSE CHOOSE x \in SetupPlayerSet : TRUE]
    /\ supply = DealtSupply(SupplyList(1))
    /\ pool = DealtPool(SupplyList(1))
    /\ field_occupancy = ClearedOccupancy
    /\ hand_size_delta_next_round = [q \in Players |-> 0]
    /\ initiative_pid = NoPid
    /\ start_player = StartOffset % NPlayers
    /\ current_player = start_player
    /\ turn_order = TurnOrderFrom(start_player)
    /\ turn = 1
    /\ pc = "api"
    /\ passed = [q \in Players |-> FALSE]
    /\ actions_left = ActionsPerTurn
    /\ iters = 0
    /\ winner = NoPid
    /\ victory_vp = MaxVictoryVP
    /\ last = NoCall
    /\ calls = MaxCalls - 1
    /\ probe = NoProbe

\* apply_action(g, 0, ("play", (i, to_mat, slot)))
PlayCall ==
    \E a \in PlayArgs(players[0]) :
        /\ apply_action(0, a)
        /\ Called("play", 0, a.slot)

PlayNext == PlayCall

PlaySpec == PlayInit /\ [][PlayNext]_vars

----------------------------------------------------------------------------
(* MctsSpec: mcts_choose (bots/mcts.py)                                    *)

\* the part of a game object that apply_action and the rotation can write
GameRec ==
    [players |-> players, pool |-> pool, field_occupancy |-> field_occupancy,
     initiative_pid |-> initiative_pid, current_player |-> current_player]

\* apply_action(s, pid, a) on a game object s: the objects it can leave behind
ApplyOn(s, pid, a) ==
    CASE a.kind = "play" ->
            {[s EXCEPT !.players[pid] = ActPlay(s.players[pid], a.i, a.to_mat, a.slot)]}
      [] a.kind = "buy_pool" ->
            {[s EXCEPT !.players[pid] = ActBuyPool(s.players[pid], s.pool, a.i).p,
                       !.pool = ActBuyPool(s.players[pid], s.pool, a.i).pool]}
      [] a.kind = "buy_vp" ->
            {[s EXCEPT !.players[pid] = ActBuyVp(s.players[pid], a.i)]}
      [] a.kind = "worker" ->
            IF WorkerRefused(s.players[pid], s.field_occupancy, a.field) THEN {s}
            ELSE {[s EXCEPT !.players[pid] = [q EXCEPT !.workers = q.workers - 1],
                            !.initiative_pid = IF a.field = "initiative"
                                               THEN ClaimInitiative(s.initiative_pid, pid)
                                               ELSE s.initiative_pid,
                            !.field_occupancy = Put(s.field_occupancy, a.field,
                                                    Get(s.field_occupancy, a.field) + 1)] :
                     q \in WorkerEffectSet(s.players[pid], a.field)}
      [] OTHER -> {s}

\* _rotate_to_next_player(s)
RotateToNextPlayer(s) ==
    IF turn_order # <<>>
    THEN LET idx == IndexIn(turn_order, s.current_player)
         IN [s EXCEPT !.current_player = turn_order[((idx + 1) % NPlayers) + 1]]
    ELSE [s EXCEPT !.current_player = (s.current_player + 1) % NPlayers]

\* returns are kept as integers: 100 times the float the code computes
NoValue == -999999
\* _terminal_value(s, root_pid); NoValue stands for None
TerminalValue(s, root_pid) ==
    LET winners == {q \in Players : s.players[q].vp >= victory_vp}
    IN IF winners # {} THEN (IF root_pid \in winners THEN 100000 ELSE -100000)
       ELSE NoValue

RECURSIVE ResSumFrom(_, _)
ResSumFrom(p, i) ==
    IF i > Len(RES) THEN 0 ELSE Get(p.resources, RES[i]) + ResSumFrom(p, i + 1)

\* _static_eval(s, root_pid)
StaticEval(s, root_pid) ==
    LET others == Players \ {root_pid}
        lead == s.players[root_pid].vp - SetMax({s.players[q].vp : q \in others})
        rdiff == ResSumFrom(s.players[root_pid], 1)
                 - SetMax({ResSumFrom(s.players[q], 1) : q \in others})
    IN IF NPlayers > 1 THEN 100 * lead + rdiff
       ELSE 100 * s.players[root_pid].vp

\* _default_policy_choose(s, pid): the actions the rollout policy can return
DefaultPolicyChooseSet(s, pid) ==
    Range(LegalActionsOn(s.players, s.pool, s.field_occupancy, pid))

\* the game states mcts_choose is asked about: player 0 to move in a round
\* under way, most fields taken
MctsRootPlayers ==
    {[NewPlayer(<<>>) EXCEPT !.hand = h, !.workers = w,
                             !.resources = [k \in RESSet |-> IF k = "plasma" THEN pl ELSE 0]] :
        h \in {<<>>, <<"VP:1">>}, w \in 0..1, pl \in 0..1}
MctsRootPools == {<<>>, <<"c1">>}
\* the other player: no cards in hand, no workers left, one plasma
MctsOpponent ==
    [NewPlayer(<<>>) EXCEPT !.workers = 0,
                            !.resources = [k \in RESSet |-> IF k = "plasma" THEN 1 ELSE 0]]
MctsRootOccupancy ==
    {[f \in FieldSet |-> IF f \in open THEN 0 ELSE FieldCap] : open \in {{}, {"shards"}}}

\* probe while no trial has been made
NoMcts ==
    [pid |-> 0, rollouts |-> 0, horizon |-> 0, actions_cap |-> 0, time_ms |-> 0,
     late |-> FALSE, root_actions |-> <<>>, results_n |-> <<>>, results_sum |-> <<>>,
     step_count |-> 0, idx |-> 0, fb |-> 0, cur |-> 0, from |-> "main", depth |-> 0,
     sref |-> "none", copies |-> 0, applied |-> 0, result |-> PassAct]

MctsInit ==
    /\ \E p0 \in MctsRootPlayers :
          players = [q \in Players |->
                       IF q = 0 THEN p0 ELSE MctsOpponent]
    /\ supply = <<>>
    /\ pool \in MctsRootPools
    /\ field_occupancy \in MctsRootOccupancy
    /\ hand_size_delta_next_round = [q \in Players |-> 0]
    /\ initiative_pid = NoPid
    /\ start_player = StartOffset % NPlayers
    /\ current_player = start_player
    /\ turn_order = TurnOrderFrom(start_player)
    /\ turn = 1
    /\ pc = "mcts_start"
    /\ passed = [q \in Players |-> FALSE]
    /\ actions_left = ActionsPerTurn
    /\ iters = 0
    /\ winner = NoPid
    /\ victory_vp = MaxVictoryVP
    /\ last = NoCall
    /\ calls = 0
    /\ \E r \in 0..MaxRollouts : \E h \in 0..MaxHorizon :
       \E cap \in 0..MaxActionsCap : \E ms \in 0..MaxTimeMs :
          probe = [s |-> GameRec] @@
                  [NoMcts EXCEPT !.pid = current_player, !.rollouts = r, !.horizon = h,
                                 !.actions_cap = cap, !.time_ms = ms]

\* max(0, int(horizon) - 1)
HorizonLeft == IF probe.horizon - 1 > 0 THEN probe.horizon - 1 ELSE 0

\* max(1, int(rollouts))
TotalTrials == IF probe.rollouts > 1 THEN probe.rollouts ELSE 1

\* faulty variant: s = g, no copy is made
DeepCopyRef_aliased(ref) == ref

\* s = copy.deepcopy(g): the object s refers to
DeepCopyRef(ref) == "copy"

\* the object the simulation works on
SimNow == IF probe.sref = "real" THEN GameRec ELSE probe.s

\* a write through the reference s
WriteSim(ref, ns) ==
    IF ref = "real"
    THEN /\ players' = ns.players
         /\ pool' = ns.pool
         /\ field_occupancy' = ns.field_occupancy
         /\ initiative_pid' = ns.initiative_pid
         /\ current_player' = ns.current_player
         /\ UNCHANGED <<supply, start_player, turn_order, turn, hand_size_delta_next_round>>
    ELSE UNCHANGED gvars

\* faulty variant: the cap test lets one more expansion through
BudgetOk_offByOne(step_count, late) ==
    /\ ~(probe.actions_cap > 0 /\ step_count > probe.actions_cap)
    /\ ~(probe.time_ms > 0 /\ late)

\* _budget_ok, `late` telling whether the clock has passed time_ms
BudgetOk(step_count, late) ==
    /\ ~(probe.actions_cap > 0 /\ step_count >= probe.actions_cap)
    /\ ~(probe.time_ms > 0 /\ late)

\* what a reading of time.time_ns() can show: once late, always late
LateSet == IF probe.time_ms > 0 /\ ~probe.late THEN {FALSE, TRUE} ELSE {probe.late}

RECURSIVE SumSeq(_)
SumSeq(sq) == IF sq = <<>> THEN 0 ELSE Head(sq) + SumSeq(Tail(sq))

IsNonPass(a) == a.kind # "pass"
NonPass(acts) == SelectSeq(acts, IsNonPass)

\* faulty variant: the single-choice shortcut is never taken
ShortCircuit_never(non_pass) == FALSE

\* line 135: only one real choice
ShortCircuit(non_pass) == Len(non_pass) = 1

mrest == <<passed, actions_left, iters, winner, victory_vp, last, calls>>

\* lines 129-152
MctsBegin ==
    /\ pc = "mcts_start"
    /\ LET root == legal_actions(probe.pid)
           np == NonPass(root)
       IN IF root = <<>>
          THEN /\ probe' = [probe EXCEPT !.result = PassAct]
               /\ pc' = "mcts_done"
          ELSE IF ShortCircuit(np)
          THEN /\ probe' = [probe EXCEPT !.root_actions = root, !.result = np[1]]
               /\ pc' = "mcts_done"
          ELSE /\ probe' = [probe EXCEPT !.root_actions = root,
                                         !.results_n = [i \in 1..Len(root) |-> 0],
                                         !.results_sum = [i \in 1..Len(root) |-> 0],
                                         !.fb = 1]
               /\ pc' = "mcts_loop"
    /\ UNCHANGED gvars
    /\ UNCHANGED mrest

\* results_sum[a] += ret; results_n[a] += 1
Recorded(pr, ret) ==
    [pr EXCEPT !.results_sum[pr.cur] = @ + ret, !.results_n[pr.cur] = @ + 1]

\* one sample of root action k: copy, root move, rotation, and the opening
\* test of _simulate_from (lines 159-167 and 178-183, 81-86)
StartTrial(k, from, late) ==
    LET ref == DeepCopyRef("real")
        s0 == [GameRec EXCEPT !.current_player = probe.pid]
    IN \E s1 \in ApplyOn(s0, probe.pid, probe.root_actions[k]) :
          LET r == RotateToNextPlayer(s1)
              tv == TerminalValue(r, probe.pid)
              ret == IF tv # NoValue THEN tv
                     ELSE IF 0 < HorizonLeft THEN NoValue
                     ELSE StaticEval(r, probe.pid)
              pr == [probe EXCEPT !.late = late, !.cur = k, !.from = from,
                                  !.sref = ref,
                                  !.s = IF ref = "real" THEN @ ELSE r,
                                  !.copies = @ + 1, !.applied = @ + 1,
                                  !.step_count = @ + 1, !.depth = 0,
                                  !.idx = IF from = "main" THEN @ + 1 ELSE @]
          IN /\ WriteSim(ref, r)
             /\ probe' = IF ret = NoValue THEN pr ELSE Recorded(pr, ret)
             /\ pc' = IF ret = NoValue THEN "mcts_sim" ELSE "mcts_after"

\* the while test of line 154 and, when it holds, one trial
MctsLoop ==
    /\ pc = "mcts_loop"
    /\ \E late \in LateSet :
          IF /\ BudgetOk(probe.step_count, late)
             /\ SumSeq(probe.results_n) < TotalTrials * Len(probe.root_actions)
          THEN StartTrial((probe.idx % Len(probe.root_actions)) + 1, "main", late)
          ELSE /\ probe' = [probe EXCEPT !.late = late]
               /\ pc' = "mcts_fallback"
               /\ UNCHANGED gvars
    /\ UNCHANGED mrest

\* one ply of _simulate_from (lines 86-107)
MctsSimStep ==
    /\ pc = "mcts_sim"
    /\ LET s == SimNow
           who == s.current_player
       IN \E act \in DefaultPolicyChooseSet(s, who) : \E s1 \in ApplyOn(s, who, act) :
             LET tv == TerminalValue(s1, probe.pid)
                 r == IF tv # NoValue THEN s1 ELSE RotateToNextPlayer(s1)
                 d == probe.depth + 1
                 ret == IF tv # NoValue THEN tv
                        ELSE IF d < HorizonLeft THEN NoValue
                        ELSE StaticEval(r, probe.pid)
                 pr == [probe EXCEPT !.s = IF probe.sref = "real" THEN @ ELSE r,
                                     !.applied = @ + 1, !.depth = d]
             IN /\ WriteSim(probe.sref, r)
                /\ probe' = IF ret = NoValue THEN pr ELSE Recorded(pr, ret)
                /\ pc' = IF ret = NoValue THEN "mcts_sim" ELSE "mcts_after"
    /\ UNCHANGED mrest

\* after a sample: the budget test of line 172, or the next fallback action
MctsAfterTrial ==
    /\ pc = "mcts_after"
    /\ IF probe.from = "main"
       THEN \E late \in LateSet :
               /\ probe' = [probe EXCEPT !.late = late]
               /\ pc' = IF BudgetOk(probe.step_count, late)
                        THEN "mcts_loop" ELSE "mcts_fallback"
       ELSE /\ probe' = [probe EXCEPT !.fb = @ + 1]
            /\ pc' = "mcts_fallback"
    /\ UNCHANGED gvars
    /\ UNCHANGED mrest

\* lines 176-185: every action still without a sample gets one if the budget allows
MctsFallback ==
    /\ pc = "mcts_fallback"
    /\ IF probe.fb > Len(probe.root_actions)
       THEN /\ pc' = "mcts_return"
            /\ UNCHANGED <<probe, gvars>>
       ELSE IF probe.results_n[probe.fb] = 0
       THEN \E late \in LateSet :
               IF BudgetOk(probe.step_count, late)
               THEN StartTrial(probe.fb, "fb", late)
               ELSE /\ probe' = [probe EXCEPT !.late = late, !.fb = @ + 1]
                    /\ pc' = "mcts_fallback"
                    /\ UNCHANGED gvars
       ELSE /\ probe' = [probe EXCEPT !.fb = @ + 1]
            /\ pc' = "mcts_fallback"
            /\ UNCHANGED gvars
    /\ UNCHANGED mrest

\* key(i) < key(j) for the key (mean(x), 0 if not pass else -1) of line 193;
\* an action without samples has mean -inf
KeyLess(i, j) ==
    LET ni == probe.results_n[i]
        nj == probe.results_n[j]
        si == probe.results_sum[i]
        sj == probe.results_sum[j]
        pi == IF IsNonPass(probe.root_actions[i]) THEN 0 ELSE -1
        pj == IF IsNonPass(probe.root_actions[j]) THEN 0 ELSE -1
        meanLess == IF nj = 0 THEN FALSE
                    ELSE IF ni = 0 THEN TRUE
                    ELSE si * nj < sj * ni
        meanEq == IF ni = 0 \/ nj = 0 THEN ni = nj ELSE si * nj = sj * ni
    IN meanLess \/ (meanEq /\ pi < pj)

\* faulty variant: the first root action is returned whatever the samples say
BestIndex_first ==
    CHOOSE k \in 1..Len(probe.root_actions) : \A j \in 1..Len(probe.root_actions) : k <= j

\* max(root_actions, key=...): the first action with the largest key
BestIndex ==
    CHOOSE k \in 1..Len(probe.root_actions) :
        /\ \A j \in 1..Len(probe.root_actions) : ~KeyLess(k, j)
        /\ \A j \in 1..(k - 1) : KeyLess(j, k)

\* lines 188-194
MctsReturn ==
    /\ pc = "mcts_return"
    /\ probe' = [probe EXCEPT !.result = probe.root_actions[BestIndex]]
    /\ pc' = "mcts_done"
    /\ UNCHANGED gvars
    /\ UNCHANGED mrest

MctsNext ==
    \/ MctsBegin
    \/ MctsLoop
    \/ MctsSimStep
    \/ MctsAfterTrial
    \/ MctsFallback
    \/ MctsReturn

MctsSpec == MctsInit /\ [][MctsNext]_vars

----------------------------------------------------------------------------
(* RoundSpec: rounds driven call by call, with effect tags applied through *)
(* apply_global_effects; probe keeps the books the rules announce          *)

\* apply_global_effects(g, pid, effect) for an effect string of one tag
apply_global_effects(pid, tag) ==
    CASE tag[1] \in {"hand_size_delta_next_round", "forage_yield_bonus_this_round",
                     "end_round_all_compost", "first_to_play_three_domains"} ->
            UNCHANGED gvars
      [] tag[1] = "self_plasma" ->
            /\ players' = [players EXCEPT ![pid] = AddRes(@, "plasma", tag[2])]
            /\ UNCHANGED <<supply, pool, field_occupancy, initiative_pid, start_player,
                           turn_order, current_player, turn, hand_size_delta_next_round>>
      [] tag[1] = "self_gain" ->
            /\ players' = [players EXCEPT ![pid] = AddRes(@, tag[2], tag[3])]
            /\ UNCHANGED <<supply, pool, field_occupancy, initiative_pid, start_player,
                           turn_order, current_player, turn, hand_size_delta_next_round>>
      [] tag[1] = "self_vp" ->
            /\ players' = [players EXCEPT ![pid].vp = @ + tag[2]]
            /\ UNCHANGED <<supply, pool, field_occupancy, initiative_pid, start_player,
                           turn_order, current_player, turn, hand_size_delta_next_round>>
      [] OTHER -> UNCHANGED gvars

\* the tags handed to apply_global_effects
RoundTags ==
    {<<"hand_size_delta_next_round", d>> : d \in ((0 - MaxDelta)..MaxDelta) \ {0}}
    \cup {<<"self_plasma", 1>>}

AccFields == {"ash", "shards"}

\* the books: whether a round is under way, per player the hand-size delta
\* announced by tags since the last draw-up, per accumulating field the count
\* announced by the rules
NoBooks ==
    [open |-> FALSE, pending |-> [q \in Players |-> 0], acc |-> [f \in AccFields |-> 0]]

RoundInit ==
    /\ Setup
    /\ pc = "api"
    /\ passed = [q \in Players |-> FALSE]
    /\ actions_left = ActionsPerTurn
    /\ iters = 0
    /\ winner = NoPid
    /\ victory_vp = MaxVictoryVP
    /\ last = NoCall
    /\ calls = 0
    /\ probe = NoBooks

RoundCalled(op, pid, arg, books) ==
    /\ pc = "api"
    /\ calls < MaxRoundCalls
    /\ calls' = calls + 1
    /\ last' = [op |-> op, pid |-> pid, arg |-> arg]
    /\ probe' = books
    /\ UNCHANGED <<pc, passed, actions_left, iters, winner, victory_vp>>

\* a card effect resolved during a round
RoundEffect ==
    /\ probe.open
    /\ \E pid \in Players : \E tag \in RoundTags :
          /\ apply_global_effects(pid, tag)
          /\ RoundCalled("effect", pid, tag[2],
                         IF tag[1] = "hand_size_delta_next_round"
                         THEN [probe EXCEPT !.pending[pid] = @ + tag[2]]
                         ELSE probe)

\* start_of_round, called as play_one does: after setup and after end_of_round
RoundStartOfRound ==
    /\ ~probe.open
    /\ start_of_round
    /\ RoundCalled("start_of_round", NoPid, 0,
                   [open |-> TRUE,
                    pending |-> [q \in Players |-> 0],
                    acc |-> [f \in AccFields |-> probe.acc[f] + 1]])

RoundEndOfRound ==
    /\ probe.open
    /\ end_of_round
    /\ RoundCalled("end_of_round", NoPid, 0, [probe EXCEPT !.open = FALSE])

RoundWorker ==
    /\ probe.open
    /\ \E pid \in Players : \E f \in AccFields \cup {"plasma"} :
          /\ apply_action(pid, WorkerAct(f))
          /\ RoundCalled("worker", pid, FieldNo(f),
                         IF f \in AccFields
                            /\ ~WorkerRefused(players[pid], field_occupancy, f)
                         THEN [probe EXCEPT !.acc[f] = 1]
                         ELSE probe)

RoundNext ==
    \/ RoundEffect
    \/ RoundStartOfRound
    \/ RoundEndOfRound
    \/ RoundWorker

RoundSpec == RoundInit /\ [][RoundNext]_vars

----------------------------------------------------------------------------
(* PaySpec: _pay_mixed and _pay_with_choice on probed players and costs    *)

PayHands ==
    UNION {[1..n -> {"RES:plasma", "RES:shards", "VP:1"}] : n \in 0..MaxPayHand}
PayPlayers ==
    {[NewPlayer(<<>>) EXCEPT !.hand = h, !.discard = <<"c2">>,
                             !.resources = [k \in RESSet |->
                                 IF k = "plasma" THEN pl ELSE IF k = "shards" THEN sh ELSE 0]]
       : h \in PayHands, pl \in 0..MaxPay, sh \in 0..1}
PayCosts ==
    {[k \in {key} |-> n] : key \in {"plasma", "shards"}, n \in 1..MaxPay}
      \cup {[k \in {"plasma", "shards"} |-> 1], VpPlayCost(1), VpPlayCost(3)}

PayInit ==
    /\ BlankGame
    /\ pc = "probe"
    /\ passed = [q \in Players |-> FALSE]
    /\ actions_left = ActionsPerTurn
    /\ iters = 0
    /\ winner = NoPid
    /\ victory_vp = MaxVictoryVP
    /\ last = NoCall
    /\ calls = 0
    /\ \E p \in PayPlayers : \E cost \in PayCosts :
          probe = [p |-> p, cost |-> cost, kind |-> "none", can |-> FALSE,
                   ok |-> FALSE, out |-> p, done |-> FALSE]

\* if _can_pay_mixed(p, cost): _pay_mixed(p, cost)
ProbePayMixed ==
    /\ pc = "probe"
    /\ ~probe.done
    /\ CHOICE_KEY \notin DOMAIN probe.cost
    /\ LET can == CanPayMixed(probe.p, probe.cost) IN
       probe' = [probe EXCEPT
                   !.kind = "mixed", !.can = can, !.ok = can,
                   !.out = IF can THEN PayMixed(probe.p, probe.cost, TRUE) ELSE probe.p,
                   !.done = TRUE]
    /\ UNCHANGED <<gvars, lvars, victory_vp, last, calls>>

\* if _can_pay_with_choice(p, cost): ok = _pay_with_choice(p, cost)
ProbePayWithChoice ==
    /\ pc = "probe"
    /\ ~probe.done
    /\ LET can == CanPayWithChoice(probe.p, probe.cost)
           paid == PayWithChoice(probe.p, probe.cost, TRUE)
       IN probe' = [probe EXCEPT
                      !.kind = "choice", !.can = can,
                      !.ok = IF can THEN paid.ok ELSE FALSE,
                      !.out = IF can THEN paid.p ELSE probe.p,
                      !.done = TRUE]
    /\ UNCHANGED <<gvars, lvars, victory_vp, last, calls>>

PayNext == ProbePayMixed \/ ProbePayWithChoice

PaySpec == PayInit /\ [][PayNext]_vars

----------------------------------------------------------------------------
(* DrawSpec: draw applied to probed players                                *)

DrawPiles == UNION {[1..n -> {"VP:1", "c1", "c2"}] : n \in 0..MaxPile}
DrawPlayers ==
    {[NewPlayer(dk) EXCEPT !.hand = h, !.discard = ds]
       : dk \in DrawPiles, ds \in DrawPiles, h \in {<<>>, <<"RES:plasma">>}}

DrawInit ==
    /\ BlankGame
    /\ pc = "probe"
    /\ passed = [q \in Players |-> FALSE]
    /\ actions_left = ActionsPerTurn
    /\ iters = 0
    /\ winner = NoPid
    /\ victory_vp = MaxVictoryVP
    /\ last = NoCall
    /\ calls = 0
    /\ \E p \in DrawPlayers : \E n \in 0..MaxDraw :
          probe = [p |-> p, n |-> n, out |-> p, done |-> FALSE]

\* draw(g, p, n)
ProbeDraw ==
    /\ pc = "probe"
    /\ ~probe.done
    /\ \E q \in DrawSet(probe.p, probe.n) :
          probe' = [probe EXCEPT !.out = q, !.done = TRUE]
    /\ UNCHANGED <<gvars, lvars, victory_vp, last, calls>>

DrawNext == ProbeDraw

DrawSpec == DrawInit /\ [][DrawNext]_vars

----------------------------------------------------------------------------
(* CompostSpec: the two compost pathways with the events they log         *)

\* the records compost_from_hand emits, in order
CompostEvents(p, index) ==
    IF ~(0 <= index /\ index < Len(p.hand)) THEN <<>>
    ELSE LET tok == p.hand[index + 1]
             gains == IF tok \in CardIdSet THEN CompostGainsFor(Cards[tok]) ELSE EmptyDict
         IN (IF gains # EmptyDict
             THEN <<[a |-> "on_compost_gain", card |-> tok, grants |-> gains]>>
             ELSE <<>>)
            \o <<[a |-> "compost", card |-> tok, grants |-> EmptyDict]>>

\* the events the slot-3 branch of _act_play logs through compost_from_hand
Slot3Events(p, hand_idx, to_mat, slot) ==
    IF hand_idx < 0 \/ hand_idx >= Len(p.hand) THEN <<>>
    ELSE IF p.hand[hand_idx + 1] \notin CardIdSet THEN <<>>
    ELSE LET c == Cards[p.hand[hand_idx + 1]]
             eff == DiscountedCost(c.play_cost, TotalDiscountForCard(p, c))
             paid == PayMixed([p EXCEPT !.hand = RemoveAt(p.hand, hand_idx + 1)], eff, TRUE)
         IN IF CanPayMixed(p, eff) /\ MatBranch(paid, c, to_mat, slot) /\ slot = 3
               /\ paid.hand # <<>>
            THEN CompostEvents(paid, 0)
            ELSE <<>>

\* the events the compost field of _act_worker logs through compost_from_hand
FieldEvents(p, occ) ==
    IF WorkerRefused(p, occ, "compost") \/ p.hand = <<>> THEN <<>>
    ELSE CompostEvents(p, 0)

CompostMats == {EmptyDict, [s \in {3} |-> "c1"]}

CompostInit ==
    /\ \E h \in PlayProbeHands : \E m \in CompostMats : \E rs \in PlayProbeResources :
       \E w \in 0..1 :
          players = [q \in Players |->
                       IF q = 0
                       THEN [NewPlayer(<<>>) EXCEPT !.hand = h, !.mat = m, !.resources = rs,
                                                    !.workers = w]
                       ELSE CHOOSE x \in SetupPlayerSet : TRUE]
    /\ supply = DealtSupply(SupplyList(1))
    /\ pool = DealtPool(SupplyList(1))
    /\ field_occupancy = ClearedOccupancy
    /\ hand_size_delta_next_round = [q \in Players |-> 0]
    /\ initiative_pid = NoPid
    /\ start_player = StartOffset % NPlayers
    /\ current_player = start_player
    /\ turn_order = TurnOrderFrom(start_player)
    /\ turn = 1
    /\ pc = "api"
    /\ passed = [q \in Players |-> FALSE]
    /\ actions_left = ActionsPerTurn
    /\ iters = 0
    /\ winner = NoPid
    /\ victory_vp = MaxVictoryVP
    /\ last = NoCall
    /\ calls = MaxCalls - 1
    /\ probe = [events |-> <<>>]

CompostCalled(op, arg, events) ==
    /\ pc = "api"
    /\ calls < MaxCalls
    /\ calls' = calls + 1
    /\ last' = [op |-> op, pid |-> 0, arg |-> arg]
    /\ probe' = [events |-> events]
    /\ UNCHANGED <<pc, passed, actions_left, iters, winner, victory_vp>>

\* apply_action(g, 0, ("play", (i, True, 3)))
CompostBySlot3 ==
    \E i \in HandIdxArgs(players[0]) :
        /\ apply_action(0, PlayAct(i, TRUE, 3))
        /\ CompostCalled("play", 3, Slot3Events(players[0], i, TRUE, 3))

\* apply_action(g, 0, ("worker", ("compost",)))
CompostByField ==
    /\ apply_action(0, WorkerAct("compost"))
    /\ CompostCalled("worker", FieldNo("compost"), FieldEvents(players[0], field_occupancy))

CompostNext == CompostBySlot3 \/ CompostByField

CompostSpec == CompostInit /\ [][CompostNext]_vars

----------------------------------------------------------------------------
(* GreedySpec: choose_action of bots/greedy.py on probed game states      *)
(* Scores are kept in hundredths (1.3 is 130); the library cards have     *)
(* domain None and mat_points 0.                                          *)

\* hand_relief: 0.25 at or above big_hand_threshold
HandRelief(p) == IF Len(p.hand) >= BigHandThreshold THEN 25 ELSE 0
Late == turn > LateRoundThreshold
\* mat_slots_free
MatSlotsFree(p) ==
    IF 6 - Cardinality(DOMAIN p.mat) > 0 THEN 6 - Cardinality(DOMAIN p.mat) ELSE 0
IsAnimal(c) == c.type_ \in {"Farm", "Critter", "Wild"}
\* 100 * (vp_now + vp_future) of expected_vp_if_played_now
ExpectedVp(c, mode) == IF IsAnimal(c) THEN 20 ELSE 0
SumCost(cost) == SumSeq([i \in 1..Len(RES) |-> Get(cost, RES[i])])

\* shortfall(cost) of _cheapest_need_to_play
Shortfall(p, cost) ==
    [k \in {x \in DOMAIN cost : AvailableAmount(p, x) < cost[x]} |->
        cost[k] - AvailableAmount(p, k)]

\* the running `best` of _cheapest_need_to_play; none tells best is None
RECURSIVE CheapestFrom(_, _, _, _)
CheapestFrom(p, i, none, best) ==
    IF i > Len(p.hand) THEN best
    ELSE IF p.hand[i] \notin CardIdSet THEN CheapestFrom(p, i + 1, none, best)
    ELSE LET need == Shortfall(p, Cards[p.hand[i]].play_cost)
         IN IF none \/ SumCost(need) < SumCost(best)
            THEN CheapestFrom(p, i + 1, FALSE, need)
            ELSE CheapestFrom(p, i + 1, none, best)

CheapestNeedToPlay(p) == CheapestFrom(p, 1, TRUE, EmptyDict)

\* 100 * _distance_to_first
DistanceToFirst(pid) ==
    IF turn_order = <<>> \/ pid \notin Range(turn_order) THEN 100
    ELSE (100 * (IndexIn(turn_order, pid) % NPlayers))
           \div (IF NPlayers - 1 > 1 THEN NPlayers - 1 ELSE 1)

\* 100 * _initiative_desirability for a player who may claim initiative
InitiativeDesirability(pid) ==
    LET dist == DistanceToFirst(pid)
        base == (150 * dist) \div 100 + (IF Late THEN 60 ELSE 20)
                  - (IF players[pid].workers <= 1 THEN 60 ELSE 0)
    IN IF dist = 0 THEN (base * 15) \div 100 ELSE base

WorkerBase(field) ==
    CASE field = "rookery" -> 160
      [] field = "plasma" -> 130
      [] field = "ash" -> 110
      [] field = "shards" -> 110
      [] field = "forage" -> 100
      [] field = "compost" -> 90
      [] OTHER -> 80

WorkerBoost(need, field) ==
    CASE field = "plasma" -> 90 * Get(need, "plasma")
      [] field = "ash" -> 80 * Get(need, "ash")
      [] field = "shards" -> 80 * Get(need, "shards")
      [] field = "forage" -> 50 * (Get(need, "nut") + Get(need, "berry") + Get(need, "mushroom"))
      [] OTHER -> 0

\* 100 * score(a) of choose_action
Score(pid, a) ==
    LET p == players[pid] IN
    CASE a.kind = "play" ->
            LET tok == p.hand[a.i + 1]
                relief == (60 * HandRelief(p)) \div 100
            IN IF IsVPTok(tok)
               THEN 300 * (VPVal(tok) + (IF 1 \in DOMAIN p.mat THEN 2 ELSE 0)) + relief
               ELSE IF tok \notin CardIdSet
               THEN relief + (IF a.to_mat THEN 20 ELSE 0)
               ELSE LET c == Cards[tok]
                        syn == IF a.to_mat /\ IsAnimal(c) THEN 60 ELSE 0
                        mat_pref == IF a.to_mat /\ MatSlotsFree(p) > 0 THEN 100 ELSE 0
                    IN (150 * ExpectedVp(c, a.to_mat)) \div 100 + syn + relief
                         + (40 * mat_pref) \div 100 - 20 * SumCost(c.play_cost)
      [] a.kind = "worker" ->
            IF a.field = "initiative" THEN InitiativeDesirability(pid)
            ELSE LET base == IF Late /\ a.field \in {"plasma", "ash", "shards", "forage"}
                             THEN (WorkerBase(a.field) * 9) \div 10
                             ELSE WorkerBase(a.field)
                 IN base + WorkerBoost(CheapestNeedToPlay(p), a.field)
      [] a.kind = "buy_pool" ->
            IF ~(0 <= a.i /\ a.i < Len(pool)) THEN 0
            ELSE IF pool[a.i + 1] \in CardIdSet
            THEN LET best_v == ExpectedVp(Cards[pool[a.i + 1]], TRUE)
                 IN (70 * best_v) \div 100 + (IF best_v > 0 THEN 20 ELSE 0)
            ELSE 10
      [] a.kind = "buy_vp" ->
            LET base == CASE a.i = 1 -> 60 [] a.i = 2 -> 90 [] a.i = 3 -> 120 [] OTHER -> 50
            IN IF Late THEN base ELSE (base * 8) \div 10
      [] a.kind = "pass" -> -100
      [] OTHER -> 0

\* faulty variant: max keeps the last of the best-scored actions
GreedyBest_last(pid, acts) ==
    CHOOSE k \in 1..Len(acts) :
        /\ \A j \in 1..Len(acts) : Score(pid, acts[j]) <= Score(pid, acts[k])
        /\ \A j \in (k + 1)..Len(acts) : Score(pid, acts[j]) < Score(pid, acts[k])

\* max(acts, key=score): the index of the first action with the largest score
GreedyBest(pid, acts) ==
    CHOOSE k \in 1..Len(acts) :
        /\ \A j \in 1..Len(acts) : Score(pid, acts[j]) <= Score(pid, acts[k])
        /\ \A j \in 1..(k - 1) : Score(pid, acts[j]) < Score(pid, acts[k])

\* choose_action(g, pid): the (action, explored) pairs it can return; below
\* tells whether g.rng.random() fell below cfg.explore
GreedyChooseSet(pid, below) ==
    LET acts == legal_actions(pid)
        guided == NonPass(acts)
    IN IF acts = <<>> THEN {[action |-> PassAct, explored |-> FALSE]}
       ELSE IF below
       THEN {[action |-> a, explored |-> TRUE]
               : a \in Range(IF guided # <<>> THEN guided ELSE acts)}
       ELSE {[action |-> acts[GreedyBest(pid, acts)], explored |-> FALSE]}

GreedyOccupancy ==
    {[f \in FieldSet |-> IF f \in open THEN 0 ELSE FieldCap]
       : open \in {{}, {"ash", "shards", "initiative"}, FieldSet}}
GreedyMats == {EmptyDict, [s \in {1} |-> "c1"]}

GreedyInit ==
    /\ \E h \in PlayProbeHands : \E m \in GreedyMats : \E pl \in 0..1 : \E sh \in 0..1 :
       \E w \in {0, 2} :
          players = [q \in Players |->
                       IF q = 0
                       THEN [NewPlayer(<<>>) EXCEPT
                               !.hand = h, !.mat = m, !.workers = w,
                               !.resources = [k \in RESSet |->
                                   IF k = "plasma" THEN pl ELSE IF k = "shards" THEN sh ELSE 0]]
                       ELSE CHOOSE x \in SetupPlayerSet : TRUE]
    /\ supply = DealtSupply(SupplyList(1))
    /\ pool = DealtPool(SupplyList(1))
    /\ field_occupancy \in GreedyOccupancy
    /\ hand_size_delta_next_round = [q \in Players |-> 0]
    /\ initiative_pid = NoPid
    /\ start_player \in Players
    /\ current_player = 0
    /\ turn_order = TurnOrderFrom(start_player)
    /\ turn = 1
    /\ pc = "probe"
    /\ passed = [q \in Players |-> FALSE]
    /\ actions_left = ActionsPerTurn
    /\ iters = 0
    /\ winner = NoPid
    /\ victory_vp = MaxVictoryVP
    /\ last = NoCall
    /\ calls = 0
    /\ probe = [action |-> PassAct, explored |-> FALSE, below |-> FALSE, done |-> FALSE]

\* action, explored = choose_action(g, 0)
GreedyChoose ==
    /\ pc = "probe"
    /\ ~probe.done
    /\ \E below \in BOOLEAN : \E r \in GreedyChooseSet(0, below) :
          probe' = [action |-> r.action, explored |-> r.explored, below |-> below,
                    done |-> TRUE]
    /\ UNCHANGED <<gvars, lvars, victory_vp, last, calls>>

GreedyNext == GreedyChoose

GreedySpec == GreedyInit /\ [][GreedyNext]_vars

----------------------------------------------------------------------------
(* Claims                                                                  *)

AllFields == FieldSet \cup DOMAIN field_occupancy

\* C1: every field's occupancy counter is between 0 and the field's capacity
\* after any sequence of calls, and it is exactly 0 for every field right
\* after start_of_round returns.
C1_OccupancyWithinCapacity ==
    /\ \A f \in AllFields :
          0 <= Get(field_occupancy, f) /\ Get(field_occupancy, f) <= Get(field_capacity, f)
    /\ last.op = "start_of_round" => \A f \in AllFields : Get(field_occupancy, f) = 0

\* a worker was placed on the ash field (the only source of ash within the
\* first round) and start_of_round has then emptied the fields
C1_Witness ==
    /\ last.op = "start_of_round"
    /\ turn = 0
    /\ \E q \in Players : Get(players[q].resources, "ash") = 1
    /\ \A f \in AllFields : Get(field_occupancy, f) = 0

\* C2: while the initiative field holds its one worker, no player's
\* legal_actions contains the initiative worker action, and a worker call on
\* initiative changes nothing in the game (occupancy, worker counts, holder).
C2_InitiativeClaimedOnce ==
    /\ [](Get(field_occupancy, "initiative") >= 1 =>
            \A q \in Players : WorkerAct("initiative") \notin Range(legal_actions(q)))
    /\ [][(/\ last'.op = "worker"
           /\ last'.arg = FieldNo("initiative")
           /\ Get(field_occupancy, "initiative") >= 1)
          => UNCHANGED gvars]_vars

\* a second player, with workers left, has called the initiative worker
\* action in the round in which the first player claimed it
C2_Witness ==
    /\ last.op = "worker" /\ last.arg = FieldNo("initiative")
    /\ turn = 0 /\ turn_order = <<>>
    /\ initiative_pid # NoPid /\ last.pid # initiative_pid
    /\ players[last.pid].workers = 2
    /\ Get(field_occupancy, "initiative") = 1

CopiesIn(sq, cid) == Count(sq, cid)
CopiesOnMat(m, cid) == Cardinality({sl \in DOMAIN m : m[sl] = cid})
CopiesInPlayer(p, cid) ==
    CopiesIn(p.deck, cid) + CopiesIn(p.hand, cid)
    + CopiesIn(p.discard, cid) + CopiesOnMat(p.mat, cid)
RECURSIVE CopiesInPlayers(_, _)
CopiesInPlayers(cid, q) ==
    IF q >= NPlayers THEN 0
    ELSE CopiesInPlayer(players[q], cid) + CopiesInPlayers(cid, q + 1)
CopiesOf(cid) == CopiesIn(supply, cid) + CopiesIn(pool, cid) + CopiesInPlayers(cid, 0)

\* C3: for every card id, the copies in the supply, the pool and all players'
\* deck, hand, discard and mat never exceed the card's print count.
C3_CopiesNeverExceedPrintCount ==
    \A cid \in CardIdSet : CopiesOf(cid) <= CopiesPerUnique

\* C4: every occupied mat slot is an index in 1..6, and an occupied slot keeps
\* its card across every call.
C4_MatSlotsInRangeAndPermanent ==
    /\ [](\A q \in Players : DOMAIN players[q].mat \subseteq 1..6)
    /\ [][\A q \in Players : \A sl \in DOMAIN players[q].mat :
            sl \in DOMAIN players'[q].mat /\ players'[q].mat[sl] = players[q].mat[sl]]_vars

\* the second half of C4 alone: an occupied slot keeps its card
C4_OccupiedSlotsKeepTheirCard ==
    [][\A q \in Players : \A sl \in DOMAIN players[q].mat :
            sl \in DOMAIN players'[q].mat /\ players'[q].mat[sl] = players[q].mat[sl]]_vars

\* C5: no call decreases a player's victory points.
C5_VpNeverDecreases ==
    [][\A q \in Players : players'[q].vp >= players[q].vp]_vars

\* a VP token has been played
C5_Witness == last.op = "play" /\ players[last.pid].vp >= 1

\* the cost of action a is payable in full by p: for a choice cost, the fixed
\* part and one more unit of some listed resource
FullCostPayable(p, pl, a) ==
    CASE a.kind = "play" ->
            IF IsVPTok(p.hand[a.i + 1])
            THEN LET cost == VpPlayCost(VPVal(p.hand[a.i + 1]))
                     fixed == Del(cost, CHOICE_KEY)
                 IN IF Choices(cost) = <<>> THEN CanPayMixed(p, fixed)
                    ELSE \E rk \in Range(Choices(cost)) :
                            CanPayMixed(p, Put(fixed, rk, Get(fixed, rk) + 1))
            ELSE LET c == Cards[p.hand[a.i + 1]]
                 IN CanPayMixed(p, DiscountedCost(c.play_cost, TotalDiscountForCard(p, c)))
      [] a.kind = "buy_pool" -> AvailableAmount(p, "plasma") >= PoolCost(pl[a.i + 1])
      [] a.kind = "buy_vp" -> AvailableAmount(p, "plasma") >= VpBuyCost(a.i)
      [] OTHER -> TRUE

\* a play of a VP token or library card in hand, a buy of a market card, or
\* a buy of a configured VP pile
CostedAction(p, pl, a) ==
    CASE a.kind = "play" ->
            /\ 0 <= a.i /\ a.i < Len(p.hand)
            /\ (IsVPTok(p.hand[a.i + 1]) \/ p.hand[a.i + 1] \in CardIdSet)
      [] a.kind = "buy_pool" -> 0 <= a.i /\ a.i < Len(pl)
      [] a.kind = "buy_vp" -> a.i \in {1, 3}
      [] OTHER -> FALSE

CostedArgs(p) ==
    PlayArgs(p) \cup {BuyPoolAct(j) : j \in PoolIdxArgs} \cup {BuyVpAct(v) : v \in VpArgs}

\* C6: apply_action of a play, buy_pool or buy_vp whose cost the player cannot
\* pay in full leaves the whole game state unchanged.
C6_UnpayableCostChangesNothing ==
    [][\A q \in Players : \A a \in CostedArgs(players[q]) :
          (/\ pc = "api"
           /\ last'.op = a.kind /\ last'.pid = q
           /\ CostedAction(players[q], pool, a)
           /\ ~FullCostPayable(players[q], pool, a)
           /\ apply_action(q, a))
          => UNCHANGED gvars]_vars

RECURSIVE CostDiff(_, _, _)
CostDiff(listed, out, i) ==
    IF i > Len(RES) THEN 0
    ELSE LET d == Get(listed, RES[i]) - Get(out, RES[i])
         IN (IF d < 0 THEN 0 - d ELSE d) + CostDiff(listed, out, i + 1)

\* C7: the discounted play cost differs from the listed play cost by at most
\* one resource unit in total, whatever mat slots 2, 4, 5, 6 hold, and it has
\* no negative entry and no zero entry.
C7_DiscountAtMostOneUnit ==
    probe.done =>
        /\ CostDiff(probe.card.play_cost, probe.out, 1) <= 1
        /\ \A k \in DOMAIN probe.out : probe.out[k] > 0
        /\ DOMAIN probe.out \subseteq DOMAIN probe.card.play_cost

\* two discount conditions hold at once (slot 2 of the card's type and slot
\* 4 for a Critter), the card costs two different resources, and one unit
\* has been taken off
C7_Witness ==
    /\ probe.done
    /\ probe.card.type_ = "Critter"
    /\ {2, 4} \subseteq DOMAIN probe.mat /\ Cards[probe.mat[2]].type_ = "Critter"
    /\ {"plasma", "ash"} \subseteq DOMAIN probe.card.play_cost
    /\ CostDiff(probe.card.play_cost, probe.out, 1) = 1

MaxVp == SetMax({players[q].vp : q \in Players})

\* C8: when play_one returns, the winner has VP >= victory_vp, or the turn
\* cap was used up with nobody at the threshold and the winner's VP is the
\* maximum VP among the players.
C8_WinnerAtThresholdOrBestAtCap ==
    pc = "done" =>
        /\ winner \in Players
        /\ \/ players[winner].vp >= victory_vp
           \/ /\ iters >= TurnCap
              /\ \A q \in Players : players[q].vp < victory_vp
              /\ players[winner].vp = MaxVp

\* the cap was reached with one player ahead on VP but below the threshold
C8_Witness ==
    /\ pc = "done"
    /\ iters >= TurnCap
    /\ MaxVp >= 1 /\ MaxVp < victory_vp
    /\ \E q \in Players : players[q].vp < MaxVp
    /\ players[winner].vp = MaxVp

\* C9: play_one terminates and returns one winner id in 0..players-1 and a
\* vps list with one non-negative value per player.
C9_PlayOneTerminatesWithWinner ==
    <>(/\ pc = "done"
       /\ winner \in Players
       /\ Len(vps) = NPlayers
       /\ \A i \in 1..Len(vps) : vps[i] >= 0)

\* play_one has returned after a win by the threshold
C9_Witness ==
    /\ pc = "done"
    /\ winner \in Players
    /\ players[winner].vp >= victory_vp
    /\ Len(vps) = NPlayers

AtThreshold(ps) == \E q \in Players : ps[q].vp >= victory_vp

\* C10: the victory check follows every applied action; once a player's VP
\* is at the threshold the loop records the winner and stops: no further
\* action is applied and no round transition runs.
C10_VictoryCheckAfterEveryAction ==
    [][/\ (~AtThreshold(players) /\ AtThreshold(players')) => pc' = "check"
       /\ (pc = "top" /\ last' # last /\ last'.op \notin {"end_of_round", "start_of_round"})
             => pc' = "check"
       /\ (pc = "check" /\ AtThreshold(players))
             => (pc' = "after" /\ winner' \in Players /\ UNCHANGED gvars)
       /\ pc \in {"after", "done"} => (UNCHANGED gvars /\ pc' \in {"after", "done"})]_vars

\* the loop was left by the victory check before the turn cap
C10_Witness ==
    /\ pc = "after"
    /\ winner \in Players
    /\ iters < TurnCap
    /\ players[winner].vp >= victory_vp
    /\ last.op = "play"

JustCalled(op) == calls' = calls + 1 /\ last'.op = op

\* C12: end_of_round makes the initiative holder, if any, the start player
\* and clears the holder, and otherwise leaves start_player alone; the next
\* start_of_round puts start_player first in turn_order; no other call
\* changes start_player, and a successful initiative placement records the
\* placing player as holder when there is none.
C12_InitiativeSetsNextStartPlayer ==
    [][/\ JustCalled("end_of_round") =>
             /\ initiative_pid # NoPid => start_player' = initiative_pid
             /\ initiative_pid = NoPid => start_player' = start_player
             /\ initiative_pid' = NoPid
       /\ JustCalled("start_of_round") =>
             /\ start_player' = start_player
             /\ turn_order'[1] = start_player
             /\ current_player' = start_player
       /\ ~JustCalled("end_of_round") => start_player' = start_player
       /\ (/\ JustCalled("worker") /\ last'.arg = FieldNo("initiative")
           /\ field_occupancy' # field_occupancy /\ initiative_pid = NoPid)
             => initiative_pid' = last'.pid]_vars

\* player 1 claimed initiative, the round ended and the next one began with
\* player 1 first
C12_Witness ==
    /\ last.op = "start_of_round" /\ turn = 1
    /\ start_player = 1 /\ start_player # StartOffset % NPlayers
    /\ turn_order[1] = 1
    /\ initiative_pid = NoPid

\* C13: after start_of_round every player has workers_per_round workers; any
\* other call leaves a player's worker count alone or lowers it by exactly 1,
\* and lowers it only for the player whose worker placement went through.
C13_WorkersResetAndOnlySpentByPlacement ==
    [][/\ JustCalled("start_of_round") =>
             \A q \in Players : players'[q].workers = WorkersPerRound
       /\ ~JustCalled("start_of_round") =>
             \A q \in Players :
                \/ players'[q].workers = players[q].workers
                \/ /\ players'[q].workers = players[q].workers - 1
                   /\ JustCalled("worker") /\ last'.pid = q
                   /\ \E f \in FieldSet :
                         /\ last'.arg = FieldNo(f)
                         /\ Get(field_occupancy', f) = Get(field_occupancy, f) + 1]_vars

\* a worker was spent and the next start_of_round restored the allotment
C13_Witness ==
    /\ last.op = "start_of_round"
    /\ \E q \in Players : Get(players[q].resources, "shards") >= 1
    /\ \A q \in Players : players[q].workers = WorkersPerRound

\* C19: for every player, legal_actions is a non-empty list whose last
\* element is pass, and pass occurs in it exactly once.
C19_PassAlwaysLegalAndLast ==
    \A q \in Players :
        LET acts == legal_actions(q) IN
        /\ Len(acts) >= 1
        /\ acts[Len(acts)] = PassAct
        /\ Count(acts, PassAct) = 1

\* a player whose list offers other actions before the final pass
C19_Witness ==
    /\ calls >= 1
    /\ \E q \in Players :
          /\ Len(legal_actions(q)) >= 3
          /\ legal_actions(q)[1].kind = "play"

\* C20: applying a non-pass action that legal_actions lists changes the game
\* state; a listed VP-token play adds the token's value (plus the slot-1
\* bonus) to the player's VP, takes the token out of the hand and appends it
\* to the discard pile.
C20_LegalActionsAreEffective ==
    [][\A q \in Players : \A a \in Range(legal_actions(q)) :
          (/\ pc = "api" /\ a.kind # "pass"
           /\ last'.op = a.kind /\ last'.pid = q
           /\ apply_action(q, a))
          => /\ ~(UNCHANGED gvars)
             /\ (a.kind = "play" /\ IsVPTok(players[q].hand[a.i + 1])) =>
                   LET tok == players[q].hand[a.i + 1] IN
                   /\ players'[q].vp = players[q].vp + VPVal(tok)
                          + (IF 1 \in DOMAIN players[q].mat THEN Slot1Bonus ELSE 0)
                   /\ players'[q].discard = Append(players[q].discard, tok)
                   /\ Count(players'[q].hand, tok) = Count(players[q].hand, tok) - 1]_vars

\* C15: a play of a VP token of face value v whose cost the player can pay
\* in full raises the player's VP by v + 2 with a card in mat slot 1 and by
\* v otherwise; the token leaves the hand and is appended to the discard.
C15_VpPlayGainsFaceValuePlusSlot1Bonus ==
    [][\A a \in PlayArgs(players[0]) :
          (/\ last'.op = "play" /\ last'.pid = 0
           /\ CostedAction(players[0], pool, a)
           /\ IsVPTok(players[0].hand[a.i + 1])
           /\ FullCostPayable(players[0], pool, a)
           /\ apply_action(0, a))
          => LET tok == players[0].hand[a.i + 1]
                 v == IF tok = "VP:3" THEN 3 ELSE 1
             IN /\ players'[0].vp = players[0].vp
                       + (IF 1 \in DOMAIN players[0].mat THEN v + 2 ELSE v)
                /\ players'[0].discard = Append(players[0].discard, tok)
                /\ Count(players'[0].hand, tok) = Count(players[0].hand, tok) - 1]_vars

\* a VP:1 token was played with a card in mat slot 1: 3 VP, token in discard
C15_Witness ==
    /\ last.op = "play" /\ turn = 1
    /\ 1 \in DOMAIN players[0].mat
    /\ players[0].vp = 3
    /\ players[0].discard = <<"VP:1">>

\* index of the first card of h that is no VP token, 1 if there is none
FirstNonVp(h) ==
    IF \E i \in 1..Len(h) : ~IsVPTok(h[i])
    THEN CHOOSE i \in 1..Len(h) : ~IsVPTok(h[i]) /\ \A j \in 1..(i - 1) : IsVPTok(h[j])
    ELSE 1

\* the hand once the played card and the tokens that paid for it are gone
HandAfterPaying(p, a) ==
    LET c == Cards[p.hand[a.i + 1]]
        eff == DiscountedCost(c.play_cost, TotalDiscountForCard(p, c))
    IN PayMixed([p EXCEPT !.hand = RemoveAt(p.hand, a.i + 1)], eff, TRUE).hand

\* C16: when a card is placed on mat slot 3 and other cards remain in hand,
\* exactly one of them is removed, and it is the first one in hand order that
\* is not a VP token (the first card if all of them are VP tokens).
C16_Slot3CompostsFirstNonVpCard ==
    [][\A a \in PlayArgs(players[0]) :
          (/\ last'.op = "play" /\ last'.pid = 0
           /\ a.to_mat /\ a.slot = 3
           /\ CostedAction(players[0], pool, a)
           /\ players[0].hand[a.i + 1] \in CardIdSet
           /\ 3 \notin DOMAIN players[0].mat /\ 3 \in DOMAIN players'[0].mat
           /\ HandAfterPaying(players[0], a) # <<>>
           /\ apply_action(0, a))
          => LET h == HandAfterPaying(players[0], a)
             IN players'[0].hand = RemoveAt(h, FirstNonVp(h))]_vars

\* C17: when the legal actions of the asking player hold exactly one action
\* other than pass, mcts_choose answers with that action and has neither
\* copied the game nor applied any action, whatever rollouts, horizon and
\* budgets it was given.
C17_SingleRealChoiceReturnedWithoutSampling ==
    LET np == NonPass(legal_actions(probe.pid))
    IN Len(np) = 1 =>
          /\ probe.copies = 0
          /\ probe.applied = 0
          /\ SumSeq(probe.results_n) = 0
          /\ pc \in {"mcts_start", "mcts_done"}
          /\ pc = "mcts_done" => probe.result = np[1]

C17_Witness ==
    /\ pc = "mcts_done"
    /\ Len(NonPass(legal_actions(probe.pid))) = 1
    /\ Len(legal_actions(probe.pid)) = 2
    /\ probe.rollouts = 1
    /\ probe.horizon = 1
    /\ probe.result.kind = "buy_vp"

AnyArgs(q) ==
    PlayArgs(players[q])
    \cup {BuyPoolAct(j) : j \in PoolIdxArgs}
    \cup {BuyVpAct(v) : v \in VpArgs}
    \cup {WorkerAct(f) : f \in FieldArgs}

\* a is malformed or stale for player p: a hand index out of range, a to-mat
\* play of a library card on an occupied slot or on a slot number above 6, a
\* market index out
\* of range, an unconfigured VP denomination, a placement with no worker left
\* or on a full field
Malformed(p, pl, occ, a) ==
    CASE a.kind = "play" ->
            \/ a.i < 0 \/ a.i >= Len(p.hand)
            \/ /\ a.to_mat
               /\ p.hand[a.i + 1] \in CardIdSet
               /\ (a.slot \in DOMAIN p.mat \/ a.slot > 6)
      [] a.kind = "buy_pool" -> a.i < 0 \/ a.i >= Len(pl)
      [] a.kind = "buy_vp" -> a.i \notin {1, 3}
      [] a.kind = "worker" ->
            p.workers <= 0 \/ Get(occ, a.field) >= Get(field_capacity, a.field)
      [] OTHER -> FALSE

\* C21: apply_action with a malformed or stale action (hand index out of
\* range, to-mat play on an occupied slot or a slot outside 1..6, market index
\* out of range, unconfigured VP denomination, worker placement with no
\* workers left or on a full field) changes nothing in the game state.
C21_MalformedActionIsNoOp ==
    [][\A q \in Players : \A a \in AnyArgs(q) :
          (/\ pc = "api"
           /\ last'.op = a.kind /\ last'.pid = q
           /\ a.kind = "play" => last'.arg = a.slot
           /\ Malformed(players[q], pool, field_occupancy, a)
           /\ apply_action(q, a))
          => UNCHANGED gvars]_vars

\* C22: no resource counter of any player is ever negative, whatever calls
\* are made; and a plasma purchase that uses RES:plasma tokens from the hand
\* takes min(cost, tokens) tokens and charges the counter only the rest.
C22_ResourceCountersNeverNegative ==
    /\ [](\A q \in Players : \A k \in DOMAIN players[q].resources :
             players[q].resources[k] >= 0)
    /\ [][\A q \in Players :
            (/\ JustCalled("buy_vp") \/ JustCalled("buy_pool")
             /\ last'.pid = q
             /\ players'[q] # players[q])
            => LET cost == IF last'.op = "buy_vp" THEN VpBuyCost(last'.arg)
                           ELSE PoolBuyCostOverride
                   tok == CountResTokensInHand(players[q], "plasma")
               IN /\ CountResTokensInHand(players'[q], "plasma") = tok - Min(cost, tok)
                  /\ players'[q].resources["plasma"]
                        = players[q].resources["plasma"] - (cost - Min(cost, tok))]_vars

\* VP:3 was bought for 2 plasma with one token from the hand and one unit
\* from the counter
C22_Witness ==
    /\ last.op = "buy_vp" /\ last.arg = 3
    /\ "VP:3" \in Range(players[last.pid].discard)
    /\ players[last.pid].resources["plasma"] = 0
    /\ CountResTokensInHand(players[last.pid], "plasma") = 0
    /\ calls = 1

IsResTok(tok) == \E k \in RESSet : tok = ResTok(k)
ResKeyOf(tok) == CHOOSE k \in RESSet : tok = ResTok(k)

\* C23: every resource token in a hand is offered by legal_actions as a play
\* of its hand index, and applying a play of a resource token adds exactly 1
\* to the named counter, takes the token out of the hand and appends it to
\* the discard pile.
C23_ResourceTokenIsPlayable ==
    /\ [](\A q \in Players : \A i \in 1..Len(players[q].hand) :
             IsResTok(players[q].hand[i])
                => \E a \in Range(legal_actions(q)) : a.kind = "play" /\ a.i = i - 1)
    /\ [][\A q \in Players : \A a \in PlayArgs(players[q]) :
            (/\ pc = "api"
             /\ last'.op = "play" /\ last'.pid = q /\ last'.arg = a.slot
             /\ 0 <= a.i /\ a.i < Len(players[q].hand)
             /\ IsResTok(players[q].hand[a.i + 1])
             /\ apply_action(q, a))
            => LET tok == players[q].hand[a.i + 1]
                   k == ResKeyOf(tok)
               IN /\ players'[q].resources[k] = players[q].resources[k] + 1
                  /\ players'[q].hand = RemoveAt(players[q].hand, a.i + 1)
                  /\ players'[q].discard = Append(players[q].discard, tok)]_vars

\* C24: after a buy_pool that went through, the bought card id is appended to
\* the buyer's discard (the hand is not given the card) and is gone from its
\* place in the pool; with a non-empty supply the pool is backfilled, keeping
\* its size while the supply loses one card, and with an empty supply the
\* pool is one card shorter.
C24_BuyPoolBackfillsFromSupply ==
    [][\A q \in Players : \A j \in 0..(Len(pool) - 1) :
          (/\ JustCalled("buy_pool") /\ last'.pid = q /\ last'.arg = j
           /\ players'[q] # players[q])
          => /\ players'[q].discard = Append(players[q].discard, pool[j + 1])
             /\ Count(players'[q].hand, pool[j + 1]) = Count(players[q].hand, pool[j + 1])
             /\ IF supply # <<>>
                THEN /\ Len(pool') = Len(pool)
                     /\ Len(supply') = Len(supply) - 1
                ELSE /\ pool' = RemoveAt(pool, j + 1)
                     /\ supply' = supply]_vars

\* the hand length a draw-up to `target` leaves: never fewer cards than
\* before, never more than the player's deck and discard can supply
DrawnUpLen(p, target) ==
    IF Len(p.hand) >= target THEN Len(p.hand)
    ELSE Min(target, Len(p.hand) + Len(p.deck) + Len(p.discard))

\* C25: a hand-size delta announced for a player and pending when the round
\* ends makes the next start_of_round draw that player up to hand_size +
\* delta (drawing up, never discarding down), after which the delta is 0
\* again.
C25_PendingDeltaSetsNextDrawUpTarget ==
    [][JustCalled("start_of_round") =>
          \A q \in Players :
             /\ Len(players'[q].hand) = DrawnUpLen(players[q], HandSize + probe.pending[q])
             /\ hand_size_delta_next_round'[q] = 0]_vars

\* C26: a worker placed on the ash field, or on the shards field, gains as
\* many units of that resource as the field's accumulator holds: the
\* accumulator grows by 1 at every start_of_round and goes back to 1 when the
\* field is claimed, so a field nobody claimed for a round pays more than 1.
C26_AccumulatingFieldsPayTheirCount ==
    [][\A q \in Players : \A f \in AccFields :
          (/\ JustCalled("worker") /\ last'.pid = q /\ last'.arg = FieldNo(f)
           /\ field_occupancy' # field_occupancy)
          => players'[q].resources[f] = players[q].resources[f] + probe.acc[f]]_vars

\* the n of the draw:n tags of an effect, added up
RECURSIVE DrawCountFrom(_, _)
DrawCountFrom(effect, i) ==
    IF i > Len(effect) THEN 0
    ELSE (IF effect[i][1] = "draw" THEN effect[i][2] ELSE 0) + DrawCountFrom(effect, i + 1)

\* the player once the card at hand index i is taken from the hand, its
\* discounted cost paid and its id appended to the discard
PaidAndDiscarded(p, i) ==
    LET c == Cards[p.hand[i + 1]]
        eff == DiscountedCost(c.play_cost, TotalDiscountForCard(p, c))
        paid == PayMixed([p EXCEPT !.hand = RemoveAt(p.hand, i + 1)], eff, TRUE)
    IN [paid EXCEPT !.discard = Append(paid.discard, c.id)]

\* C27: an active play of a library card whose effect holds draw:n, with the
\* discounted cost payable, pays that cost, appends the card to the discard
\* and then draws n cards for the player, the discard being shuffled into the
\* deck when the deck is empty.
C27_ActivePlayTriggersDrawEffect ==
    [][\A q \in Players : \A a \in PlayArgs(players[q]) :
          (/\ pc = "api"
           /\ last'.op = "play" /\ last'.pid = q /\ last'.arg = a.slot
           /\ ~a.to_mat
           /\ CostedAction(players[q], pool, a)
           /\ players[q].hand[a.i + 1] \in CardIdSet
           /\ DrawCountFrom(Cards[players[q].hand[a.i + 1]].effect, 1) > 0
           /\ FullCostPayable(players[q], pool, a)
           /\ apply_action(q, a))
          => players'[q] \in
                DrawSet(PaidAndDiscarded(players[q], a.i),
                        DrawCountFrom(Cards[players[q].hand[a.i + 1]].effect, 1))]_vars

\* the discounted cost of card c is payable by p from counters plus the
\* matching resource tokens in hand
CardCostPayable(p, c) ==
    LET eff == DiscountedCost(c.play_cost, TotalDiscountForCard(p, c))
    IN \A k \in RESSet :
          Get(p.resources, k) + Count(p.hand, ResTok(k)) >= Get(eff, k)

\* C28: for a library card at hand index i, legal_actions holds the to-mat
\* play of i on slot s exactly once when the card supports mat placement, its
\* discounted cost is payable and s is a free slot in 1..6, and not at all
\* otherwise; it holds the active play of i exactly once when the discounted
\* cost is payable, and not at all otherwise.
C28_LibraryCardPlaysOfferedPerOpenSlot ==
    \A i \in 1..Len(players[0].hand) :
        players[0].hand[i] \in CardIdSet =>
            LET p == players[0]
                c == Cards[p.hand[i]]
                acts == legal_actions(0)
            IN /\ \A s \in SlotArgs \ {0} :
                     Count(acts, PlayAct(i - 1, TRUE, s)) =
                        IF /\ c.can_play_on_mat
                           /\ CardCostPayable(p, c)
                           /\ s \in 1..6 /\ s \notin DOMAIN p.mat
                        THEN 1 ELSE 0
               /\ Count(acts, PlayAct(i - 1, FALSE, 0)) =
                     IF CardCostPayable(p, c) THEN 1 ELSE 0
               /\ Count(acts, PlayAct(i - 1, TRUE, 0)) = 0

\* slots 1 and 3 are taken; c1, payable, is offered on the four free slots,
\* and c2, which has no mat support, on none
C28_Witness ==
    /\ calls = MaxCalls - 1
    /\ DOMAIN players[0].mat = {1, 3}
    /\ "c1" \in Range(players[0].hand) /\ "c2" \in Range(players[0].hand)
    /\ CardCostPayable(players[0], Cards["c1"])
    /\ Len(SelectSeq(legal_actions(0), LAMBDA a : a.kind = "play" /\ a.to_mat)) = 4

OtherCards(hand, keys) == SelectSeq(hand, LAMBDA t : \A k \in keys : t # ResTok(k))

\* C29: paying n units of a resource with t matching tokens in hand and c on
\* the counter removes exactly min(n, t) of those tokens and takes
\* n - min(n, t) from the counter; the tokens do not go to the discard pile
\* and every other hand card stays where it was.
C29_PaymentTakesTokensFirstThenCounter ==
    (probe.done /\ probe.kind = "mixed" /\ probe.can) =>
        /\ \A k \in RESSet :
              LET n == Get(probe.cost, k)
                  t == Count(probe.p.hand, ResTok(k))
                  c == Get(probe.p.resources, k)
              IN /\ Count(probe.out.hand, ResTok(k)) = t - Min(n, t)
                 /\ Get(probe.out.resources, k) = c - (n - Min(n, t))
        /\ OtherCards(probe.out.hand, DOMAIN probe.cost)
             = OtherCards(probe.p.hand, DOMAIN probe.cost)
        /\ Len(probe.out.hand) + SumSeq([i \in 1..Len(RES) |->
                                          Min(Get(probe.cost, RES[i]),
                                              Count(probe.p.hand, ResTok(RES[i])))])
             = Len(probe.p.hand)
        /\ probe.out.discard = probe.p.discard
        /\ probe.out.deck = probe.p.deck

\* two units of plasma paid with one token and one unit of the counter, next
\* to a card that is no payment token
C29_Witness ==
    /\ probe.done /\ probe.kind = "mixed" /\ probe.can
    /\ probe.cost = [k \in {"plasma"} |-> 2]
    /\ probe.p.hand = <<"VP:1", "RES:plasma", "RES:shards">>
    /\ probe.p.resources["plasma"] = 1
    /\ probe.out.hand = <<"VP:1", "RES:shards">>
    /\ probe.out.resources["plasma"] = 0

----------------------------------------------------------------------------
FixedPart(cost) == Del(cost, CHOICE_KEY)
TokensAfterFixed(p, cost, k) ==
    Count(p.hand, ResTok(k)) - Min(Get(FixedPart(cost), k), Count(p.hand, ResTok(k)))
AvailAfterFixed(p, cost, k) == AvailableAmount(p, k) - Get(FixedPart(cost), k)
Listed(cost) == Range(Choices(cost))
\* the listed resources the extra unit may come from
BestListed(p, cost) ==
    {rk \in Listed(cost) :
        /\ AvailAfterFixed(p, cost, rk) >= 1
        /\ \A o \in Listed(cost) :
              AvailAfterFixed(p, cost, o) >= 1 =>
                 \/ TokensAfterFixed(p, cost, rk) > TokensAfterFixed(p, cost, o)
                 \/ /\ TokensAfterFixed(p, cost, rk) = TokensAfterFixed(p, cost, o)
                    /\ AvailAfterFixed(p, cost, rk) >= AvailAfterFixed(p, cost, o)}

\* C30: a choice cost is affordable exactly when its fixed part is payable
\* and some listed resource has availability >= 1; paying it pays the fixed
\* part and exactly one more unit, of the listed resource with the most
\* tokens in hand among those still available (ties: larger availability).
C30_ChoiceCostPaysOneExtraUnit ==
    (probe.done /\ probe.kind = "choice" /\ Choices(probe.cost) # <<>>) =>
        /\ probe.can = (/\ CanPayMixed(probe.p, FixedPart(probe.cost))
                        /\ \E rk \in Listed(probe.cost) : AvailableAmount(probe.p, rk) >= 1)
        /\ probe.can =>
              \E rk \in BestListed(probe.p, probe.cost) :
                 \A k \in RESSet :
                    AvailableAmount(probe.out, k)
                      = AvailableAmount(probe.p, k) - Get(FixedPart(probe.cost), k)
                          - (IF k = rk THEN 1 ELSE 0)

----------------------------------------------------------------------------
Zones(p) == p.deck \o p.hand \o p.discard
SameCards(a, b) ==
    /\ Len(a) = Len(b)
    /\ \A x \in Range(a) \cup Range(b) : Count(a, x) = Count(b, x)

\* C31: draw(n) moves exactly min(n, |deck| + |discard|) cards into the hand
\* (stopping early when both piles are empty), reshuffles the discard into
\* the deck only when the deck is empty and then leaves the discard empty,
\* and keeps the multiset of deck, hand and discard together.
C31_DrawMovesCardsAndKeepsThem ==
    probe.done =>
        LET p == probe.p
            q == probe.out
            n == probe.n
            k == Min(n, Len(p.deck) + Len(p.discard))
            fromDeck == Min(n, Len(p.deck))
        IN /\ Len(q.hand) = Len(p.hand) + k
           /\ SubSeq(q.hand, 1, Len(p.hand)) = p.hand
           /\ \A i \in 1..fromDeck :
                 q.hand[Len(p.hand) + i] = p.deck[Len(p.deck) + 1 - i]
           /\ n <= Len(p.deck) =>
                 /\ q.discard = p.discard
                 /\ q.deck = SubSeq(p.deck, 1, Len(p.deck) - n)
           /\ (n > Len(p.deck) /\ p.discard # <<>>) =>
                 /\ q.discard = <<>>
                 /\ Len(q.deck) = Len(p.deck) + Len(p.discard) - k
           /\ (n > Len(p.deck) /\ p.discard = <<>>) =>
                 /\ q.discard = <<>>
                 /\ q.deck = <<>>
           /\ SameCards(Zones(q), Zones(p))

\* three cards asked for, one in the deck and two in the discard pile: the
\* deck card comes first, then the reshuffled discard pile, nothing is left
C31_Witness ==
    /\ probe.done /\ probe.n = 3
    /\ probe.p.deck = <<"VP:1">> /\ probe.p.discard = <<"c1", "c2">>
    /\ probe.p.hand = <<"RES:plasma">>
    /\ probe.out.hand = <<"RES:plasma", "VP:1", "c1", "c2">>
    /\ probe.out.deck = <<>> /\ probe.out.discard = <<>>

----------------------------------------------------------------------------
\* sum of the amounts of the compost tags of an effect that name resource k
TagSum(effect, k) ==
    SumSeq([i \in 1..Len(effect) |->
              IF /\ effect[i][1] \in {"if_composted_gain", "on_compost"}
                 /\ Len(effect[i]) >= 3
                 /\ effect[i][2] = k
              THEN effect[i][3] ELSE 0])
\* library cards that left the player's deck, hand and discard in this step
Composted(pid) ==
    {x \in CardIdSet : Count(Zones(players'[pid]), x) = Count(Zones(players[pid]), x) - 1}
\* what the play of the card now on slot 3 took from counter k
Slot3Paid(pid, k) ==
    IF last'.op = "play" /\ 3 \in DOMAIN players'[pid].mat
    THEN LET n == Get(Cards[players'[pid].mat[3]].play_cost, k)
         IN n - Min(n, Count(players[pid].hand, ResTok(k)))
    ELSE 0
GainEvents(events) == SelectSeq(events, LAMBDA e : e.a = "on_compost_gain")

\* C32: when a compost pathway (slot-3 placement, compost field) removes a
\* library card, the composting player's counters grow by exactly the
\* per-resource sum of the card's if_composted_gain / on_compost amounts, no
\* other player's counters change, and an on_compost_gain event is logged
\* exactly when that sum is non-empty.
C32_CompostGrantsTagSums ==
    [][\A x \in CardIdSet :
          x \in Composted(0) =>
             /\ \A k \in RESSet :
                   Get(players'[0].resources, k)
                     = Get(players[0].resources, k) + TagSum(Cards[x].effect, k)
                         - Slot3Paid(0, k)
             /\ \A q \in Players \ {0} : players'[q].resources = players[q].resources
             /\ (GainEvents(probe'.events) # <<>>)
                   <=> (\E k \in RESSet : TagSum(Cards[x].effect, k) > 0)
             /\ \A j \in 1..Len(GainEvents(probe'.events)) :
                   /\ j = 1
                   /\ GainEvents(probe'.events)[j].card = x
                   /\ \A k \in RESSet :
                         Get(GainEvents(probe'.events)[j].grants, k) = TagSum(Cards[x].effect, k)
      ]_vars

\* c1 was placed on slot 3 and c2, with two compost tags for ash, was
\* composted from a hand that also paid with a token; ash went from 1 to 3
C32_Witness ==
    /\ last.op = "play" /\ last.arg = 3
    /\ 3 \in DOMAIN players[0].mat /\ players[0].mat[3] = "c1"
    /\ players[0].hand = <<>>
    /\ players[0].discard = <<"c1">>
    /\ players[0].resources["ash"] = 3
    /\ Len(probe.events) = 2
    /\ probe.events[1].a = "on_compost_gain" /\ probe.events[1].card = "c2"

----------------------------------------------------------------------------
\* seats between cur and q going round the turn order (1 .. n)
SeatsAfter(order, cur, q) ==
    LET pos(x) == CHOOSE i \in 1..Len(order) : order[i] = x
        d == (pos(q) - pos(cur) + Len(order)) % Len(order)
    IN IF d = 0 THEN Len(order) ELSE d
LoopActed == pc = "top" /\ pc' = "check"
LoopTurnOver == pc = "check" /\ pc' = "top"

\* C33: in the game loop the current player applies at most actions_per_turn
\* consecutive actions; when they are used up (or the player passed) the
\* turn moves to the next non-passed player in turn order, and the same
\* player goes on only if every other player has passed this round.
C33_TurnMovesAfterActionsPerTurn ==
    [][/\ LoopActed =>
            /\ last'.pid = current_player
            /\ ~passed[current_player]
            /\ actions_left \in 1..ActionsPerTurn
            /\ actions_left' = IF last'.op = "pass" THEN 0 ELSE actions_left - 1
       /\ (LoopTurnOver /\ actions_left > 0) =>
            /\ current_player' = current_player
            /\ actions_left' = actions_left
       /\ (LoopTurnOver /\ actions_left <= 0) =>
            LET others == {q \in Players \ {current_player} : ~passed[q]}
            IN /\ actions_left' = ActionsPerTurn
               /\ others = {} => current_player' = current_player
               /\ others # {} =>
                     /\ current_player' \in others
                     /\ \A q \in others :
                           SeatsAfter(turn_order, current_player, current_player')
                             <= SeatsAfter(turn_order, current_player, q)
      ]_vars

\* the other player has passed; the current player used up a full turn
\* without passing and is on turn again
C33_Witness ==
    /\ pc = "top"
    /\ last.pid = current_player
    /\ last.op \in {"play", "buy_pool", "buy_vp", "worker"}
    /\ actions_left = ActionsPerTurn
    /\ ~passed[current_player]
    /\ \A q \in Players \ {current_player} : passed[q]

----------------------------------------------------------------------------
\* C34: when the loop declares a winner by the VP threshold, the winner is
\* the player who applied the last action, and no other player is at the
\* threshold at that moment.
C34_ThresholdWinnerIsLastActor ==
    (pc = "after" /\ winner # NoPid) =>
        /\ last.pid = winner
        /\ last.op \in {"play", "buy_pool", "buy_vp", "worker", "pass"}
        /\ players[winner].vp >= victory_vp
        /\ \A q \in Players \ {winner} : players[q].vp < victory_vp

\* the second seat wins by the threshold with the play of a VP token
C34_Witness ==
    /\ pc = "after" /\ winner = 1
    /\ last.pid = 1 /\ last.op = "play"
    /\ players[1].vp >= victory_vp
    /\ players[0].vp < victory_vp

----------------------------------------------------------------------------
VpLeaders == {q \in Players : \A r \in Players : players[q].vp >= players[r].vp}

\* C35: at the cap with nobody at the threshold and several players sharing
\* the highest VP, the winner is one of them with the highest secondary
\* resource total (the plasma counter); the RNG decides only among players
\* tied on that as well.
C35_CapTieBrokenByPlasmaThenDraw ==
    (/\ pc = "done"
     /\ \A q \in Players : players[q].vp < victory_vp
     /\ Cardinality(VpLeaders) > 1) =>
        /\ winner \in VpLeaders
        /\ \A q \in VpLeaders :
              Get(players[winner].resources, "plasma") >= Get(players[q].resources, "plasma")

\* both players end with the same VP below the threshold; the second seat
\* holds more plasma and wins
C35_Witness ==
    /\ pc = "done"
    /\ players[0].vp = players[1].vp
    /\ players[0].vp < victory_vp
    /\ players[1].resources["plasma"] > players[0].resources["plasma"]
    /\ winner = 1

----------------------------------------------------------------------------
\* C36: end_of_round moves every card left in every hand to its owner's
\* discard pile: all hands are empty afterwards, deck, hand and discard
\* together keep their cards, and the round counter goes up by exactly 1.
C36_EndOfRoundDiscardsHands ==
    [][JustCalled("end_of_round") =>
          /\ \A q \in Players :
                /\ players'[q].hand = <<>>
                /\ players'[q].deck = players[q].deck
                /\ SubSeq(players'[q].discard, 1, Len(players[q].discard)) = players[q].discard
                /\ Len(players'[q].discard) = Len(players[q].discard) + Len(players[q].hand)
                /\ SameCards(Zones(players'[q]), Zones(players[q]))
          /\ turn' = turn + 1
      ]_vars

\* a round ended with a bought card already in the first player's discard
\* pile: what was left of the hand went on top of it
C36_Witness ==
    /\ last.op = "end_of_round"
    /\ calls = 2
    /\ players[0].hand = <<>>
    /\ Len(players[0].discard) = 2
    /\ players[0].discard[1] \in CardIdSet
    /\ players[0].discard[2] = "VP:1"
    /\ players[1].hand = <<>> /\ Len(players[1].discard) = 2

----------------------------------------------------------------------------
Sampling == pc \in {"mcts_loop", "mcts_sim", "mcts_after", "mcts_fallback", "mcts_return"}
RoundRobinCounts ==
    /\ \A i, j \in 1..Len(probe.results_n) :
          /\ probe.results_n[i] - probe.results_n[j] <= 1
          /\ i < j => probe.results_n[i] >= probe.results_n[j]
    /\ SumSeq(probe.results_n) <= probe.step_count
    /\ probe.actions_cap > 0 => probe.step_count <= probe.actions_cap

\* C37: mcts_choose hands out trials round-robin in enumeration order: the
\* sample counts of two root actions never differ by more than 1, no action
\* gets more than `rollouts` samples, and with actions_cap = c > 0 the number
\* of root expansions (main loop and zero-sample fallback) never exceeds c.
C37_RoundRobinWithinRolloutsAndCap ==
    Sampling =>
        /\ RoundRobinCounts
        /\ \A i \in 1..Len(probe.results_n) : probe.results_n[i] <= probe.rollouts

\* C37 as the code has it: the per-action limit is max(1, rollouts), so an
\* action is sampled once even when rollouts is 0.
C37_RoundRobinWithinTotalTrialsAndCap ==
    Sampling =>
        /\ RoundRobinCounts
        /\ \A i \in 1..Len(probe.results_n) :
              probe.results_n[i] <= (IF probe.rollouts > 1 THEN probe.rollouts ELSE 1)

\* two rollouts per action asked for, no budget: the first root action has
\* its second sample while the last one has had one
C37_Witness ==
    /\ pc = "mcts_after"
    /\ probe.rollouts = 2 /\ probe.actions_cap = 0 /\ probe.time_ms = 0
    /\ Len(probe.root_actions) >= 3
    /\ probe.results_n[1] = 2
    /\ probe.results_n[Len(probe.root_actions)] = 1

----------------------------------------------------------------------------
\* mean(j) <= mean(k), an action without samples having mean -inf
MeanLeq(j, k) ==
    IF probe.results_n[j] = 0 THEN TRUE
    ELSE IF probe.results_n[k] = 0 THEN FALSE
    ELSE probe.results_sum[j] * probe.results_n[k] <= probe.results_sum[k] * probe.results_n[j]
Sampled == probe.results_n # <<>>
ResultIndexes == {k \in 1..Len(probe.root_actions) : probe.root_actions[k] = probe.result}

\* C38: mcts_choose returns one of the root legal actions; after sampling it
\* returns an action with the highest mean return, a non-pass one when pass
\* ties with a non-pass action for that mean, and never an action without
\* samples when some action was sampled.
C38_MctsReturnsBestSampledAction ==
    (pc = "mcts_done") =>
        /\ probe.result \in Range(legal_actions(probe.pid))
        /\ Sampled =>
              \E k \in ResultIndexes :
                 /\ \A j \in 1..Len(probe.root_actions) : MeanLeq(j, k)
                 /\ probe.result.kind = "pass" =>
                       \A j \in 1..Len(probe.root_actions) :
                          probe.root_actions[j].kind # "pass" => ~MeanLeq(k, j)
                 /\ (\E j \in 1..Len(probe.root_actions) : probe.results_n[j] > 0)
                       => probe.results_n[k] > 0

\* the expansion cap ran out after two of several root actions were sampled
\* and the second one, not the first, is returned
C38_Witness ==
    /\ pc = "mcts_done"
    /\ Sampled
    /\ probe.actions_cap = 2 /\ probe.step_count = 2
    /\ Len(probe.root_actions) >= 3
    /\ probe.results_n[3] = 0
    /\ probe.result = probe.root_actions[2]

----------------------------------------------------------------------------
ScoreOf(a) == Score(0, a)
Chosen == {k \in 1..Len(legal_actions(0)) : legal_actions(0)[k] = probe.action}

\* C39: the greedy choose_action returns a legal action: when exploring, a
\* non-pass action if one is legal (any legal action otherwise), flagged as
\* explored; otherwise the first action in enumeration order among those
\* with the highest score, flagged as not explored.
C39_GreedyReturnsLegalBestOrExplores ==
    probe.done =>
        /\ Chosen # {}
        /\ probe.explored = probe.below
        /\ probe.below =>
              (probe.action.kind = "pass" =>
                  \A j \in 1..Len(legal_actions(0)) : legal_actions(0)[j].kind = "pass")
        /\ ~probe.below =>
              \E k \in Chosen :
                 /\ \A j \in 1..Len(legal_actions(0)) :
                       ScoreOf(legal_actions(0)[j]) <= ScoreOf(probe.action)
                 /\ \A j \in 1..(k - 1) :
                       ScoreOf(legal_actions(0)[j]) < ScoreOf(probe.action)

\* ash and shards are open and score the same, nothing scores higher: the
\* greedy branch returns ash, the one enumerated first
C39_Witness ==
    /\ probe.done /\ ~probe.explored
    /\ probe.action = WorkerAct("ash")
    /\ WorkerAct("shards") \in Range(legal_actions(0))
    /\ ScoreOf(WorkerAct("shards")) = ScoreOf(WorkerAct("ash"))
    /\ Len(legal_actions(0)) >= 4

====
